---- MODULE Spec2Model ----
(***************************************************************************)
(* A model of the Refunge Funge-98 interpreter: funge-space (grid.rs),     *)
(* the stack engine (stack.rs), vectors (vector.rs), the instruction       *)
(* pointer and its opcode table (pointer.rs), the coordination events      *)
(* (event.rs) and the host loop that steps every IP and then drains the    *)
(* event queue.                                                            *)
(*                                                                         *)
(* Characters are modelled by their Unicode scalar value, cells of the     *)
(* stack by mathematical integers kept inside the i32 range.               *)
(***************************************************************************)
EXTENDS Integers, Sequences, FiniteSets, TLC

\* ------------------------------------------------------------------ bounds

\* a tick is started only while no IP holds more than MaxStack cells
MaxStack == 4
\* a tick is started only while the IP list has at most MaxIPs entries
MaxIPs == 3
\* a tick is started only while the output buffer has at most MaxOut characters
MaxOut == 4
\* coordinates tried around the grid by the quantified grid properties
Margin == 2

\* ------------------------------------------------------------- characters

\* `c as i32` / char literals: the scalar value of each character the
\* programs of the model use
Ord ==
    (" " :> 32) @@ ("!" :> 33) @@ ("quote" :> 34) @@ ("#" :> 35) @@ ("$" :> 36) @@
    ("%" :> 37) @@ ("&" :> 38) @@ ("'" :> 39) @@ ("*" :> 42) @@ ("+" :> 43) @@
    ("," :> 44) @@ ("-" :> 45) @@ ("." :> 46) @@ ("/" :> 47) @@
    ("0" :> 48) @@ ("1" :> 49) @@ ("2" :> 50) @@ ("3" :> 51) @@ ("4" :> 52) @@
    ("5" :> 53) @@ ("6" :> 54) @@ ("7" :> 55) @@ ("8" :> 56) @@ ("9" :> 57) @@
    (":" :> 58) @@ (";" :> 59) @@ ("<" :> 60) @@ ("=" :> 61) @@ (">" :> 62) @@
    ("?" :> 63) @@ ("@" :> 64) @@ ("[" :> 91) @@ ("backslash" :> 92) @@ ("]" :> 93) @@
    ("^" :> 94) @@ ("_" :> 95) @@ ("backtick" :> 96) @@
    ("a" :> 97) @@ ("b" :> 98) @@ ("c" :> 99) @@ ("d" :> 100) @@ ("e" :> 101) @@
    ("f" :> 102) @@ ("g" :> 103) @@ ("h" :> 104) @@ ("i" :> 105) @@ ("j" :> 106) @@ ("k" :> 107) @@
    ("l" :> 108) @@ ("n" :> 110) @@ ("o" :> 111) @@ ("p" :> 112) @@ ("q" :> 113) @@
    ("r" :> 114) @@ ("s" :> 115) @@ ("t" :> 116) @@ ("u" :> 117) @@ ("v" :> 118) @@
    ("w" :> 119) @@ ("x" :> 120) @@ ("y" :> 121) @@ ("z" :> 122) @@ ("{" :> 123) @@
    ("|" :> 124) @@ ("}" :> 125) @@ ("~" :> 126)

\* a line of program text, written as a tuple of one-character strings
\* ("quote", "backslash" and "backtick" name the three characters a string
\* literal cannot hold), as the sequence of its characters' scalar values
Text(s) == [i \in DOMAIN s |-> Ord[s[i]]]

\* ------------------------------------------------------------- i32 cells

\* i32::MAX and i32::MIN, the range of a stack cell
I32Max == 2147483647
I32Min == (-I32Max) - 1

\* i32::saturating_add: the exact sum clamped to the i32 range (computed
\* without leaving that range)
saturating_add(x, y) ==
    IF y > 0 /\ x > I32Max - y THEN I32Max
    ELSE IF y < 0 /\ x < I32Min - y THEN I32Min
    ELSE x + y

\* i32::saturating_sub: the exact difference clamped to the i32 range
saturating_sub(y, x) ==
    IF x < 0 /\ y > I32Max + x THEN I32Max
    ELSE IF x > 0 /\ y < I32Min + x THEN I32Min
    ELSE y - x

\* |n| for n > I32Min
Abs(n) == IF n < 0 THEN -n ELSE n

\* i32::saturating_mul: the exact product clamped to the i32 range
saturating_mul(x, y) ==
    IF x = 0 \/ y = 0 THEN 0
    ELSE IF x = I32Min \/ y = I32Min
         THEN (IF x = 1 \/ y = 1 THEN I32Min
               ELSE IF (x < 0) = (y < 0) THEN I32Max ELSE I32Min)
    ELSE IF Abs(x) > I32Max \div Abs(y)
         THEN (IF (x < 0) = (y < 0) THEN I32Max ELSE I32Min)
    ELSE x * y

\* char::from_u32(n as u32).unwrap_or(' '): `n as u32` of a negative n is
\* n + 2^32 > 0x10FFFF, and surrogates and values above 0x10FFFF are no chars
CharFromI32(n) ==
    IF n < 0 \/ n > 1114111 \/ (n >= 55296 /\ n <= 57343) THEN Ord[" "] ELSE n

\* ---------------------------------------------------------------- vectors

\* FungeVector(x, y) is the pair <<x, y>>
ORIGIN == <<0, 0>>
NORTH == <<0, -1>>
SOUTH == <<0, 1>>
EAST == <<1, 0>>
WEST == <<-1, 0>>

\* FungeVector::invert
invert(v) == <<v[1] * (-1), v[2] * (-1)>>

\* FungeVector::turn_left: swap the coordinates, then negate the second
turn_left(v) == <<v[2], v[1] * (-1)>>

\* FungeVector::turn_right: swap the coordinates, then negate the first
turn_right(v) == <<v[2] * (-1), v[1]>>

\* is_negative with `&&` for `||`: only a vector negative in both coordinates
is_negative_Both(v) == v[1] < 0 /\ v[2] < 0

\* FungeVector::is_negative
is_negative(v) == v[1] < 0 \/ v[2] < 0

\* impl Add for FungeVector
VecAdd(a, b) == <<a[1] + b[1], a[2] + b[2]>>

\* ------------------------------------------------------------ stack engine

\* FungeStack<T>: `inner` lists the cells bottom (front) to top (back)
StackDefault == [inner |-> <<>>, queue_mode |-> FALSE, invert_mode |-> FALSE]

\* FungeStack::len
StackLen(s) == Len(s.inner)

\* FungeStack::clear: the mode flags persist
StackClear(s) == [s EXCEPT !.inner = <<>>]

\* FungeStack::push: to the back, or to the front in invert mode
StackPush(s, val) ==
    IF s.invert_mode
    THEN [s EXCEPT !.inner = <<val>> \o s.inner]
    ELSE [s EXCEPT !.inner = Append(s.inner, val)]

\* FungeStack::pop with unwrap_or(-1) for unwrap_or_default()
StackPop_MinusOne(s) ==
    IF s.inner = <<>> THEN [val |-> 0 - 1, st |-> s]
    ELSE IF s.queue_mode
    THEN [val |-> Head(s.inner), st |-> [s EXCEPT !.inner = Tail(s.inner)]]
    ELSE [val |-> s.inner[Len(s.inner)],
          st |-> [s EXCEPT !.inner = SubSeq(s.inner, 1, Len(s.inner) - 1)]]

\* FungeStack::pop: from the back, or from the front in queue mode;
\* unwrap_or_default() gives 0 on an empty stack.  The result is the popped
\* value and the stack left.
StackPop(s) ==
    IF s.inner = <<>> THEN [val |-> 0, st |-> s]
    ELSE IF s.queue_mode
    THEN [val |-> Head(s.inner), st |-> [s EXCEPT !.inner = Tail(s.inner)]]
    ELSE [val |-> s.inner[Len(s.inner)],
          st |-> [s EXCEPT !.inner = SubSeq(s.inner, 1, Len(s.inner) - 1)]]

\* FungeData: the cells and the mode, "Stack" or "Queue"
DataDefault == [inner |-> <<>>, mode |-> "Stack"]

\* FungeData::pop: from the back in stack mode, from the front in queue
\* mode, 0 when there is no cell
DataPop(d) ==
    IF d.inner = <<>> THEN [val |-> 0, st |-> d]
    ELSE IF d.mode = "Queue"
    THEN [val |-> Head(d.inner), st |-> [d EXCEPT !.inner = Tail(d.inner)]]
    ELSE [val |-> d.inner[Len(d.inner)],
          st |-> [d EXCEPT !.inner = SubSeq(d.inner, 1, Len(d.inner) - 1)]]

\* FungeData::push
DataPush(d, n) == [d EXCEPT !.inner = Append(d.inner, n)]

\* n!
RECURSIVE Factorial(_)
Factorial(n) == IF n <= 1 THEN 1 ELSE n * Factorial(n - 1)

\* lehmer::Lehmer::from_decimal(p, n): the n digits of p in the factorial
\* number system, the most significant first
LehmerFromDecimal(p, n) ==
    [i \in 1..n |-> (p \div Factorial(n - i)) % (n - i + 1)]

\* s without its k-th element
RemoveAt(s, k) == SubSeq(s, 1, k - 1) \o SubSeq(s, k + 1, Len(s))

\* decoding of a Lehmer code: each digit d takes the d-th smallest of the
\* indexes not taken yet
RECURSIVE LehmerDecode(_, _)
LehmerDecode(digits, avail) ==
    IF digits = <<>> THEN <<>>
    ELSE <<avail[Head(digits) + 1]>>
         \o LehmerDecode(Tail(digits), RemoveAt(avail, Head(digits) + 1))

\* Lehmer::to_permutation: the permutation of 0 .. n-1 the code ranks
LehmerToPermutation(digits) ==
    LehmerDecode(digits, [i \in 1..Len(digits) |-> i - 1])

\* permute indexing the old stack by the digits of the code themselves
permute_RawDigits(s, p) ==
    LET perm == LehmerFromDecimal(p, Len(s.inner))
    IN  [s EXCEPT !.inner = [i \in 1..Len(perm) |-> s.inner[perm[i] + 1]]]

\* FungeStack::permute(p) for 0 <= p < len!: position i of the new stack
\* holds the element that was at perm[i]
permute(s, p) ==
    LET perm == LehmerToPermutation(LehmerFromDecimal(p, Len(s.inner)))
    IN  [s EXCEPT !.inner = [i \in 1..Len(perm) |-> s.inner[perm[i] + 1]]]

\* FungeData::permute(p) for 0 <= p < len!
DataPermute(d, p) ==
    LET perm == LehmerToPermutation(LehmerFromDecimal(p, Len(d.inner)))
    IN  [d EXCEPT !.inner = [i \in 1..Len(perm) |-> d.inner[perm[i] + 1]]]

\* ------------------------------------------------------------ funge-space

\* the marker of a Rust panic (index out of bounds, explicit panic!)
Fault == 0 - 1

\* the longest of the lines
MaxLineLen(lines) ==
    IF lines = <<>> THEN 0
    ELSE CHOOSE n \in {Len(lines[i]) : i \in DOMAIN lines} :
            \A i \in DOMAIN lines : Len(lines[i]) <= n

\* FungeGrid::new without the padding of the shorter lines
GridNew_Ragged(lines) ==
    [chars |-> lines, og_chars |-> lines,
     width |-> MaxLineLen(lines), height |-> Len(lines)]

\* FungeGrid::new: the lines of the text, each padded with spaces to the
\* width of the longest one; og_chars keeps the text as loaded
GridNew(lines) ==
    LET width == MaxLineLen(lines)
        chars == [m \in DOMAIN lines |->
                    [n \in 1..width |->
                        IF n <= Len(lines[m]) THEN lines[m][n] ELSE Ord[" "]]]
    IN  [chars |-> chars, og_chars |-> chars,
         width |-> width, height |-> Len(lines)]

\* FungeGrid::width / FungeGrid::height
GridWidth(g) == g.width
GridHeight(g) == g.height

\* FungeGrid::char_at(x, y): self.chars[y][x], a panic outside the rows
char_at(g, x, y) ==
    IF y < Len(g.chars) /\ x < Len(g.chars[y + 1])
    THEN g.chars[y + 1][x + 1]
    ELSE Fault

\* set_char indexing the row one column too far (wrapping at the row's end)
set_char_NextColumn(g, x, y, c) ==
    IF x < g.width /\ y < g.height
    THEN [grid |-> [g EXCEPT !.chars[y + 1][((x + 1) % g.width) + 1] = c],
          ok |-> TRUE]
    ELSE [grid |-> g, ok |-> FALSE]

\* FungeGrid::set_char(x, y, c): writes inside the grid area, panics outside.
\* The result is the grid and whether the call returned.
set_char(g, x, y, c) ==
    IF x < g.width /\ y < g.height
    THEN [grid |-> [g EXCEPT !.chars[y + 1][x + 1] = c], ok |-> TRUE]
    ELSE [grid |-> g, ok |-> FALSE]

\* FungeGrid::set_char_or_expand filling the new cells with c
set_char_or_expand_Fill(g, x, y, c) ==
    LET wd == IF x >= g.width THEN x + 1 ELSE g.width
        ht == IF y >= g.height THEN y + 1 ELSE g.height
        grown == [m \in 1..ht |->
                    [n \in 1..wd |->
                        IF m <= g.height /\ n <= g.width
                        THEN g.chars[m][n] ELSE c]]
    IN  [g EXCEPT !.chars = [grown EXCEPT ![y + 1][x + 1] = c],
                  !.width = wd, !.height = ht]

\* FungeGrid::set_char_or_expand: blank columns, then blank rows, are added
\* until (x, y) is inside, then the cell is written
set_char_or_expand(g, x, y, c) ==
    LET wd == IF x >= g.width THEN x + 1 ELSE g.width
        ht == IF y >= g.height THEN y + 1 ELSE g.height
        grown == [m \in 1..ht |->
                    [n \in 1..wd |->
                        IF m <= g.height /\ n <= g.width
                        THEN g.chars[m][n] ELSE Ord[" "]]]
    IN  [g EXCEPT !.chars = [grown EXCEPT ![y + 1][x + 1] = c],
                  !.width = wd, !.height = ht]

\* FungeGrid::reset restoring the cells but not the dimensions
GridReset_KeepsSize(g) == [g EXCEPT !.chars = g.og_chars]

\* FungeGrid::reset: back to the text as loaded and its dimensions
GridReset(g) ==
    [g EXCEPT !.chars = g.og_chars,
              !.width = MaxLineLen(g.og_chars),
              !.height = Len(g.og_chars)]

\* `n as usize` where an index is expected: a negative i32 becomes a value
\* beyond every row and column of a grid
AsUsize(n) == IF n < 0 THEN I32Max ELSE n

\* FungeGrid::char_at(pos: FungeVector), the form pointer.rs calls: a
\* position with a negative coordinate reads as a space, any other one is
\* the cell self.chars[y][x]
char_at_pos(g, pos) ==
    IF is_negative(pos) THEN Ord[" "]
    ELSE char_at(g, AsUsize(pos[1]), AsUsize(pos[2]))

\* FungeGrid::set_char(pos: FungeVector, c), the form pointer.rs calls: a
\* write to a negative position is dropped, a write inside the grid is made
\* in place, a write beyond the width or height expands the grid first
set_char_pos(g, pos, c) ==
    IF is_negative(pos) THEN g
    ELSE IF pos[1] < g.width /\ pos[2] < g.height
    THEN set_char(g, pos[1], pos[2], c).grid
    ELSE set_char_or_expand(g, pos[1], pos[2], c)

\* FungeGrid::set_char(pos: FungeVector, c, expand), the form befunge.rs
\* calls: a write to a negative position is dropped; any other write goes to
\* set_char_or_expand when expand is set and to set_char, which panics
\* outside the grid area, when it is not.  The result is the grid and
\* whether the call returned.
set_char_expand(g, pos, c, expand) ==
    IF is_negative(pos) THEN [grid |-> g, ok |-> TRUE]
    ELSE IF expand
    THEN [grid |-> set_char_or_expand(g, pos[1], pos[2], c), ok |-> TRUE]
    ELSE set_char(g, pos[1], pos[2], c)

\* ---------------------------------------------------- instruction pointer

\* InstructionPointer::new numbering the IPs from one
IpNew_FromOne(pos, delta, id) ==
    [pos |-> pos, delta |-> delta, offset |-> ORIGIN, string_mode |-> FALSE,
     stacks |-> <<StackDefault>>, id |-> id + 1, dead |-> FALSE,
     first_tick |-> TRUE]

\* InstructionPointer::new: one empty base stack, first_tick set, every other
\* field at its default.  `stacks` lists the stack of stacks front first, so
\* stacks[1] is the code's self.stacks[0], the active stack.
IpNew(pos, delta, id) ==
    [pos |-> pos, delta |-> delta, offset |-> ORIGIN, string_mode |-> FALSE,
     stacks |-> <<StackDefault>>, id |-> id, dead |-> FALSE,
     first_tick |-> TRUE]

\* i32 `+` where overflow is not checked: the sum wraps around
WrapAdd(a, b) ==
    IF b > 0 /\ a > I32Max - b THEN ((a - I32Max) - 1) + ((b - I32Max) - 1)
    ELSE IF b < 0 /\ a < I32Min - b THEN (a - I32Min) + (b - I32Min)
    ELSE a + b

\* i32 `-` where overflow is not checked: the difference wraps around
WrapSub(a, b) ==
    IF b > 0 /\ a < I32Min + b THEN ((a - I32Min) + (I32Max - b)) + 1
    ELSE IF b < 0 /\ a > I32Max + b THEN ((a - I32Max) - 1) + (I32Min - b)
    ELSE a - b

\* whether i32 `a + b` / `a - b` overflows (a panic where overflow is checked)
AddOverflows(a, b) ==
    (b > 0 /\ a > I32Max - b) \/ (b < 0 /\ a < I32Min - b)
SubOverflows(a, b) ==
    (b > 0 /\ a < I32Min + b) \/ (b < 0 /\ a > I32Max + b)

\* i32 `%`: the remainder has the sign of the dividend
TruncRem(a, n) ==
    IF a >= 0 THEN a % n ELSE 0 - ((((0 - (a + 1)) % n) + 1) % n)

\* walk with `%` for rem_euclid
walk_TruncRem(ip, g) ==
    [ip EXCEPT !.pos =
        <<TruncRem(WrapAdd(ip.pos[1], ip.delta[1]), GridWidth(g)),
          TruncRem(WrapAdd(ip.pos[2], ip.delta[2]), GridHeight(g))>>]

\* InstructionPointer::walk: one step along delta, each coordinate wrapped
\* by rem_euclid into the grid
walk(ip, g) ==
    [ip EXCEPT !.pos = <<WrapAdd(ip.pos[1], ip.delta[1]) % GridWidth(g),
                         WrapAdd(ip.pos[2], ip.delta[2]) % GridHeight(g)>>]

\* InstructionPointer::walk_reverse: one step against delta, wrapped
walk_reverse(ip, g) ==
    [ip EXCEPT !.pos = <<WrapSub(ip.pos[1], ip.delta[1]) % GridWidth(g),
                         WrapSub(ip.pos[2], ip.delta[2]) % GridHeight(g)>>]

\* whether walk / walk_reverse overflows i32 before wrapping into the grid
WalkOverflows(ip) ==
    AddOverflows(ip.pos[1], ip.delta[1]) \/ AddOverflows(ip.pos[2], ip.delta[2])
WalkReverseOverflows(ip) ==
    SubOverflows(ip.pos[1], ip.delta[1]) \/ SubOverflows(ip.pos[2], ip.delta[2])

\* FungeGrid::step: the program counter of the grid moves one cell in
\* direction dir and wraps at the edges
step(g, x, y, dir) ==
    CASE dir = "Up" -> <<x, IF y = 0 THEN g.height - 1 ELSE y - 1>>
      [] dir = "Down" -> <<x, IF y = g.height - 1 THEN 0 ELSE y + 1>>
      [] dir = "Right" -> <<IF x = g.width - 1 THEN 0 ELSE x + 1, y>>
      [] dir = "Left" -> <<IF x = 0 THEN g.width - 1 ELSE x - 1, y>>

\* InstructionPointer::pop: the popped value and the IP left
pop(ip) ==
    LET r == StackPop(ip.stacks[1])
    IN  [val |-> r.val, ip |-> [ip EXCEPT !.stacks[1] = r.st]]

\* InstructionPointer::push
push(ip, n) == [ip EXCEPT !.stacks[1] = StackPush(@, n)]

\* InstructionPointer::pop_char
pop_char(ip) ==
    LET r == pop(ip) IN [val |-> CharFromI32(r.val), ip |-> r.ip]

\* InstructionPointer::pop_vector: y is popped first, then x
pop_vector(ip) ==
    LET y == pop(ip)
        x == pop(y.ip)
    IN  [val |-> <<x.val, y.val>>, ip |-> x.ip]

\* InstructionPointer::push_vector: x is pushed first, then y
push_vector(ip, v) == push(push(ip, v[1]), v[2])

\* `let (x, y) = (self.pop(), self.pop())`: x is the first value popped,
\* y the second
Pop2(ip) ==
    LET x == pop(ip)
        y == pop(x.ip)
    IN  [x |-> x.val, y |-> y.val, ip |-> y.ip]

\* FungeGrid::cell_ahead_ip: the wrapped position one delta step ahead of the
\* IP
cell_ahead_ip(g, ip) == walk(ip, g).pos

\* ------------------------------------------------------------------ events

\* Event::Spawn(id), Event::Kill(code), Event::Input(kind, id); every event
\* is a record of the same shape, `kind` being "None" but for Input
SpawnEvent(id) == [type |-> "Spawn", arg |-> id, kind |-> "None"]
KillEvent(code) == [type |-> "Kill", arg |-> code, kind |-> "None"]
InputEvent(kind, id) == [type |-> "Input", arg |-> id, kind |-> kind]

\* mpsc::Sender::send: the event joins the back of the channel
Send(sent, ev) == Append(sent, ev)

\* ------------------------------------------------------------ instructions

(***************************************************************************)
(* An instruction works on S = [ip, grid, sent, out, stdout, status]: the  *)
(* executing IP, the grid it borrows, the events it has sent, the output   *)
(* buffer, the process's standard output and whether the call returned     *)
(* ("ok"), panicked ("panic") or cannot return ("hang").                   *)
(* env = [quiet, rnd, overflow_checks] holds the quiet flag, the value     *)
(* rand::random() returns and whether the build checks integer overflow.   *)
(***************************************************************************)

\* the decimal digits of n >= 0
RECURSIVE Digits(_)
Digits(n) ==
    IF n < 10 THEN <<Ord["0"] + n>>
    ELSE Append(Digits(n \div 10), Ord["0"] + (n % 10))

\* format!("{n}"): the numeral of n >= 0 without the space after it
FormatInt_NoSpace(n) == Digits(n)

\* format!("{n} "): the decimal numeral of n, a minus sign first when n is
\* negative, followed by one space
FormatInt(n) ==
    IF n >= 0 THEN Append(Digits(n), Ord[" "])
    ELSE LET r == (10 - (n % 10)) % 10
             q == (-(n + r)) \div 10
         IN  <<Ord["-"]>> \o (IF q = 0 THEN <<>> ELSE Digits(q))
                \o <<Ord["0"] + r, Ord[" "]>>

\* i32::checked_div(y, x).unwrap_or_default(): the quotient truncated
\* towards zero, 0 when x is 0 or the quotient overflows
checked_div(y, x) ==
    IF x = 0 \/ (y = I32Min /\ x = -1) THEN 0
    ELSE IF x = I32Min THEN (IF y = I32Min THEN 1 ELSE 0)
    ELSE IF (y >= 0) = (x > 0) THEN y \div x
    ELSE IF y % Abs(x) = 0 THEN y \div x
    ELSE (y \div x) + 1

\* i32::checked_rem(y, x).unwrap_or_default(): the remainder of the
\* truncated division (it has the sign of y), 0 when x is 0 or on overflow
checked_rem(y, x) ==
    IF x = 0 \/ (y = I32Min /\ x = -1) THEN 0
    ELSE IF x = I32Min THEN (IF y = I32Min THEN 0 ELSE y)
    ELSE LET m == y % Abs(x)
         IN  IF y >= 0 \/ m = 0 THEN m ELSE m - Abs(x)

\* Befunge::command '/': 0 when x is 0, else y / x, which panics ("attempt to
\* divide with overflow") for i32::MIN / -1 in every build
BefungeCmdDiv(y, x) ==
    IF x = 0 THEN [ok |-> TRUE, val |-> 0]
    ELSE IF y = I32Min /\ x = -1 THEN [ok |-> FALSE, val |-> 0]
    ELSE [ok |-> TRUE, val |-> checked_div(y, x)]

\* Befunge::command '%': 0 when x is 0, else y % x, which panics ("attempt to
\* calculate the remainder with overflow") for i32::MIN % -1 in every build
BefungeCmdRem(y, x) ==
    IF x = 0 THEN [ok |-> TRUE, val |-> 0]
    ELSE IF y = I32Min /\ x = -1 THEN [ok |-> FALSE, val |-> 0]
    ELSE [ok |-> TRUE, val |-> checked_rem(y, x)]

\* ' ': walk while the cell under the IP is blank, then one step back; the
\* loop never ends when every cell on the IP's path is blank (the path
\* returns to its start within width * height steps)
RECURSIVE SkipBlanks(_, _)
SkipBlanks(S, fuel) ==
    IF char_at_pos(S.grid, S.ip.pos) # Ord[" "] THEN S
    ELSE IF fuel = 0 THEN [S EXCEPT !.status = "hang"]
    ELSE SkipBlanks([S EXCEPT !.ip = walk(S.ip, S.grid)], fuel - 1)

CmdSpace(S) ==
    LET T == SkipBlanks(S, GridWidth(S.grid) * GridHeight(S.grid))
    IN  IF T.status = "ok" THEN [T EXCEPT !.ip = walk_reverse(T.ip, T.grid)]
        ELSE T

\* '!'
CmdNot(S) ==
    LET r == pop(S.ip)
    IN  [S EXCEPT !.ip = push(r.ip, IF r.val = 0 THEN 1 ELSE 0)]

\* '"'
CmdStringMode(S) == [S EXCEPT !.ip.string_mode = TRUE]

\* '#'
CmdTrampoline(S) == [S EXCEPT !.ip = walk(S.ip, S.grid)]

\* '$'
CmdPop(S) == [S EXCEPT !.ip = pop(S.ip).ip]

\* '%'
CmdRem(S) ==
    LET r == Pop2(S.ip) IN [S EXCEPT !.ip = push(r.ip, checked_rem(r.y, r.x))]

\* '&' asking for a character
CmdInputInt_AsChar(S) ==
    [S EXCEPT !.sent = Send(S.sent, InputEvent("Character", S.ip.id))]

\* '&'
CmdInputInt(S) ==
    [S EXCEPT !.sent = Send(S.sent, InputEvent("Number", S.ip.id))]

\* '\'': step onto the next cell and push its character
CmdFetch(S) ==
    LET ip1 == walk(S.ip, S.grid)
        c == char_at_pos(S.grid, ip1.pos)
    IN  IF c = Fault THEN [S EXCEPT !.status = "panic"]
        ELSE [S EXCEPT !.ip = push(ip1, c)]

\* '*'
CmdMul(S) ==
    LET r == Pop2(S.ip)
    IN  [S EXCEPT !.ip = push(r.ip, saturating_mul(r.x, r.y))]

\* '+'
CmdAdd(S) ==
    LET r == Pop2(S.ip)
    IN  [S EXCEPT !.ip = push(r.ip, saturating_add(r.x, r.y))]

\* ',' replacing the output buffer by the character
CmdOutChar_Replaces(S, env) ==
    LET r == pop_char(S.ip)
    IN  IF env.quiet
        THEN [S EXCEPT !.ip = r.ip, !.stdout = Append(S.stdout, r.val)]
        ELSE [S EXCEPT !.ip = r.ip, !.out = <<r.val>>]

\* ',': the popped character goes to standard output in quiet mode, to the
\* output buffer otherwise
CmdOutChar(S, env) ==
    LET r == pop_char(S.ip)
    IN  IF env.quiet
        THEN [S EXCEPT !.ip = r.ip, !.stdout = Append(S.stdout, r.val)]
        ELSE [S EXCEPT !.ip = r.ip, !.out = Append(S.out, r.val)]

\* '-' with the first popped value as the left operand
CmdSub_Swapped(S) ==
    LET r == Pop2(S.ip)
    IN  [S EXCEPT !.ip = push(r.ip, saturating_sub(r.x, r.y))]

\* '-'
CmdSub(S) ==
    LET r == Pop2(S.ip)
    IN  [S EXCEPT !.ip = push(r.ip, saturating_sub(r.y, r.x))]

\* '.'
CmdOutInt(S, env) ==
    LET r == pop(S.ip)
    IN  IF env.quiet
        THEN [S EXCEPT !.ip = r.ip, !.stdout = S.stdout \o FormatInt(r.val)]
        ELSE [S EXCEPT !.ip = r.ip, !.out = S.out \o FormatInt(r.val)]

\* '/'
CmdDiv(S) ==
    LET r == Pop2(S.ip) IN [S EXCEPT !.ip = push(r.ip, checked_div(r.y, r.x))]

\* '0' .. '9' and 'a' .. 'f'
CmdLiteral(S, n) == [S EXCEPT !.ip = push(S.ip, n)]

\* ':'
CmdDup(S) ==
    LET r == pop(S.ip) IN [S EXCEPT !.ip = push(push(r.ip, r.val), r.val)]

\* ';': one step off the semicolon, then walk until the cell under the IP
\* is a semicolon; the loop never ends when there is none on the path
RECURSIVE SkipToSemicolon(_, _)
SkipToSemicolon(S, fuel) ==
    IF char_at_pos(S.grid, S.ip.pos) = Ord[";"] THEN S
    ELSE IF fuel = 0 THEN [S EXCEPT !.status = "hang"]
    ELSE SkipToSemicolon([S EXCEPT !.ip = walk(S.ip, S.grid)], fuel - 1)

CmdJumpOver(S) ==
    SkipToSemicolon([S EXCEPT !.ip = walk(S.ip, S.grid)],
                    GridWidth(S.grid) * GridHeight(S.grid))

\* '<' '>' '^' 'v' and '?' (with the sampled direction)
CmdGo(S, d) == [S EXCEPT !.ip.delta = d]

\* '@'
CmdStop(S) == [S EXCEPT !.ip.dead = TRUE]

\* '['
CmdTurnLeft(S) == [S EXCEPT !.ip.delta = turn_left(S.ip.delta)]

\* '\\': x is popped first; x is pushed back first
CmdSwap(S) ==
    LET r == Pop2(S.ip) IN [S EXCEPT !.ip = push(push(r.ip, r.x), r.y)]

\* ']'
CmdTurnRight(S) == [S EXCEPT !.ip.delta = turn_right(S.ip.delta)]

\* '_' going west on zero
CmdEastWestIf_Swapped(S) ==
    LET r == pop(S.ip)
    IN  [S EXCEPT !.ip = [r.ip EXCEPT !.delta = IF r.val = 0 THEN WEST ELSE EAST]]

\* '_'
CmdEastWestIf(S) ==
    LET r == pop(S.ip)
    IN  [S EXCEPT !.ip = [r.ip EXCEPT !.delta = IF r.val = 0 THEN EAST ELSE WEST]]

\* '`'
CmdGreater(S) ==
    LET r == Pop2(S.ip)
    IN  [S EXCEPT !.ip = push(r.ip, IF r.y > r.x THEN 1 ELSE 0)]

\* 'g': y is popped first, then x; the storage offset is not applied
CmdGet(S) ==
    LET r == pop_vector(S.ip)
        c == char_at_pos(S.grid, r.val)
    IN  IF c = Fault THEN [S EXCEPT !.status = "panic"]
        ELSE [S EXCEPT !.ip = push(r.ip, c)]

\* n walks, or n reverse walks: the position after k steps depends on k
\* modulo width * height only
RECURSIVE WalkTimes(_, _, _, _)
WalkTimes(ip, g, n, forward) ==
    IF n = 0 THEN ip
    ELSE WalkTimes(IF forward THEN walk(ip, g) ELSE walk_reverse(ip, g),
                   g, n - 1, forward)

\* 'j': n.abs() of i32::MIN panics where overflow is checked and is
\* i32::MIN (an empty range of steps) where it is not
CmdJump(S, env) ==
    LET r == pop(S.ip)
        period == GridWidth(S.grid) * GridHeight(S.grid)
    IN  IF r.val = I32Min
        THEN (IF env.overflow_checks THEN [S EXCEPT !.status = "panic"]
              ELSE [S EXCEPT !.ip = r.ip])
        ELSE [S EXCEPT !.ip =
                WalkTimes(r.ip, S.grid, Abs(r.val) % period, r.val > 0)]

\* 'n'
CmdClear(S) == [S EXCEPT !.ip.stacks[1] = StackClear(@)]

\* 'p': the position is popped (y, then x), then the character; the cell
\* written is the position plus the storage offset
CmdPut(S) ==
    LET v == pop_vector(S.ip)
        c == pop_char(v.ip)
    IN  [S EXCEPT !.ip = c.ip,
                  !.grid = set_char_pos(S.grid, VecAdd(v.val, c.ip.offset), c.val)]

\* Befunge::command 'p': the position (y first, then x) and the character
\* are popped and the character is written at the position plus the storage
\* offset, expanding the grid only when args.expand allows it
BefungeCmdPut(S, expand) ==
    LET v == pop_vector(S.ip)
        c == pop_char(v.ip)
        r == set_char_expand(S.grid, VecAdd(v.val, c.ip.offset), c.val, expand)
    IN  IF r.ok THEN [S EXCEPT !.ip = c.ip, !.grid = r.grid]
        ELSE [S EXCEPT !.ip = c.ip, !.status = "panic"]

\* 'q' stopping only the IP that executes it, as '@' does
CmdQuit_StopsSelf(S) ==
    LET r == pop(S.ip)
    IN  [S EXCEPT !.ip = [r.ip EXCEPT !.dead = TRUE]]

\* 'q'
CmdQuit(S) ==
    LET r == pop(S.ip)
    IN  [S EXCEPT !.ip = r.ip, !.sent = Send(S.sent, KillEvent(r.val))]

\* 'r' and every character without an arm of its own
CmdReflect(S) == [S EXCEPT !.ip.delta = invert(S.ip.delta)]

\* 's'
CmdStore(S) ==
    LET c == pop_char(S.ip)
        pos == cell_ahead_ip(S.grid, c.ip)
        g == set_char_pos(S.grid, pos, c.val)
    IN  [S EXCEPT !.ip = walk(c.ip, g), !.grid = g]

\* 't' sending the id of the first IP instead of its own
CmdSplit_FirstId(S) == [S EXCEPT !.sent = Send(S.sent, SpawnEvent(0))]

\* 't'
CmdSplit(S) == [S EXCEPT !.sent = Send(S.sent, SpawnEvent(S.ip.id))]

\* count pops of the stack `from` of the stack of stacks, each popped value
\* pushed on the stack `to`
RECURSIVE MoveCells(_, _, _, _)
MoveCells(stacks, from, to, count) ==
    IF count = 0 THEN stacks
    ELSE LET r == StackPop(stacks[from])
             s1 == [stacks EXCEPT ![from] = r.st]
         IN  MoveCells([s1 EXCEPT ![to] = StackPush(@, r.val)],
                       from, to, count - 1)

\* 'u' with the direction of the transfer exchanged
CmdStackUnderStack_Exchanged(S, env) ==
    IF Len(S.ip.stacks) = 1 THEN CmdReflect(S)
    ELSE LET r == pop(S.ip)
         IN  IF r.val > 0
             THEN [S EXCEPT !.ip = [r.ip EXCEPT !.stacks =
                                      MoveCells(r.ip.stacks, 1, 2, r.val)]]
             ELSE IF r.val = I32Min THEN [S EXCEPT !.ip = r.ip]
             ELSE [S EXCEPT !.ip = [r.ip EXCEPT !.stacks =
                                      MoveCells(r.ip.stacks, 2, 1, Abs(r.val))]]

\* 'u'
CmdStackUnderStack(S, env) ==
    IF Len(S.ip.stacks) = 1 THEN CmdReflect(S)
    ELSE LET r == pop(S.ip)
         IN  IF r.val > 0
             THEN [S EXCEPT !.ip = [r.ip EXCEPT !.stacks =
                                      MoveCells(r.ip.stacks, 2, 1, r.val)]]
             ELSE IF r.val = I32Min
             THEN (IF env.overflow_checks THEN [S EXCEPT !.status = "panic"]
                   ELSE [S EXCEPT !.ip = r.ip])
             ELSE [S EXCEPT !.ip = [r.ip EXCEPT !.stacks =
                                      MoveCells(r.ip.stacks, 1, 2, Abs(r.val))]]

\* 'w': b is popped first, then a
CmdCompare(S) ==
    LET r == Pop2(S.ip)
    IN  IF r.y < r.x THEN [S EXCEPT !.ip = [r.ip EXCEPT !.delta = turn_left(@)]]
        ELSE IF r.y > r.x
        THEN [S EXCEPT !.ip = [r.ip EXCEPT !.delta = turn_right(@)]]
        ELSE [S EXCEPT !.ip = r.ip]

\* 'x'
CmdAbsoluteDelta(S) ==
    LET r == pop_vector(S.ip) IN [S EXCEPT !.ip = [r.ip EXCEPT !.delta = r.val]]

\* 'z'
CmdNop(S) == S

\* count pops of the stack `from`, the popped values pushed on the stack
\* `to` in the reverse of the order they were popped in
MoveBlock(stacks, from, to, count) ==
    LET RECURSIVE Take(_, _, _)
        Take(st, k, acc) ==
            IF k = 0 THEN [st |-> st, elems |-> acc]
            ELSE LET r == StackPop(st) IN Take(r.st, k - 1, Append(acc, r.val))
        RECURSIVE Give(_, _, _)
        Give(st, elems, k) ==
            IF k = 0 THEN st ELSE Give(StackPush(st, elems[k]), elems, k - 1)
        t == Take(stacks[from], count, <<>>)
        s1 == [stacks EXCEPT ![from] = t.st]
    IN  [s1 EXCEPT ![to] = Give(@, t.elems, count)]

\* count zeros pushed on the stack `to`
RECURSIVE PushZeros(_, _)
PushZeros(st, count) ==
    IF count = 0 THEN st ELSE PushZeros(StackPush(st, 0), count - 1)

\* count pops of a stack, the values dropped
RECURSIVE DropCells(_, _)
DropCells(st, count) ==
    IF count = 0 THEN st ELSE DropCells(StackPop(st).st, count - 1)

\* '{' moving the cells in the order they are popped
CmdBeginBlock_Reversed(S, env) ==
    LET r == pop(S.ip)
        n == r.val
        s0 == <<StackDefault>> \o r.ip.stacks
        s1 == IF n > 0 THEN MoveBlock(MoveBlock(s0, 2, 1, n), 1, 2, n)
              ELSE IF n < 0 /\ n # I32Min
              THEN [s0 EXCEPT ![2] = PushZeros(@, Abs(n))]
              ELSE s0
        s2 == IF n > 0
              THEN [s1 EXCEPT ![1] = s1[2], ![2] = s1[1]]
              ELSE s1
        s3 == [s2 EXCEPT ![2] =
                 StackPush(StackPush(@, r.ip.offset[1]), r.ip.offset[2])]
    IN  [S EXCEPT !.ip = [r.ip EXCEPT !.stacks = s3,
                                      !.offset = VecAdd(r.ip.pos, r.ip.delta)]]

\* '{': the count is popped, a new stack is pushed in front, the cells are
\* transferred, the storage offset is saved on the second stack and the new
\* storage offset is pos + delta
CmdBeginBlock(S, env) ==
    LET r == pop(S.ip)
        n == r.val
        s0 == <<StackDefault>> \o r.ip.stacks
        s1 == IF n > 0 THEN MoveBlock(s0, 2, 1, n)
              ELSE IF n < 0 /\ n # I32Min
              THEN [s0 EXCEPT ![2] = PushZeros(@, Abs(n))]
              ELSE s0
        s2 == [s1 EXCEPT ![2] =
                 StackPush(StackPush(@, r.ip.offset[1]), r.ip.offset[2])]
    IN  IF n = I32Min /\ env.overflow_checks THEN [S EXCEPT !.status = "panic"]
        ELSE [S EXCEPT !.ip = [r.ip EXCEPT !.stacks = s2,
                                          !.offset = VecAdd(r.ip.pos, r.ip.delta)]]

\* '|'
CmdNorthSouthIf(S) ==
    LET r == pop(S.ip)
    IN  [S EXCEPT !.ip = [r.ip EXCEPT !.delta = IF r.val = 0 THEN SOUTH ELSE NORTH]]

\* '}' restoring the storage offset with x and y exchanged
CmdEndBlock_SwapsOffset(S, env) ==
    IF Len(S.ip.stacks) = 1 THEN CmdReflect(S)
    ELSE LET r == pop(S.ip)
             n == r.val
             oy == StackPop(r.ip.stacks[2])
             ox == StackPop(oy.st)
             s0 == [r.ip.stacks EXCEPT ![2] = ox.st]
             s1 == IF n > 0 THEN MoveBlock(s0, 1, 2, n)
                   ELSE IF n < 0 /\ n # I32Min
                   THEN [s0 EXCEPT ![2] = DropCells(@, Abs(n))]
                   ELSE s0
         IN  [S EXCEPT !.ip = [r.ip EXCEPT !.stacks = Tail(s1),
                                           !.offset = <<oy.val, ox.val>>]]

\* '}' removing the active stack also when it is the only one
CmdEndBlock_DropsBase(S, env) ==
    IF Len(S.ip.stacks) = 1 THEN [S EXCEPT !.ip.stacks = <<>>]
    ELSE [S EXCEPT !.ip.stacks = Tail(S.ip.stacks)]

\* '}': with one stack the IP reflects; otherwise the count is popped, the
\* storage offset is restored from the second stack (y popped first), the
\* cells are transferred and the active stack is removed
CmdEndBlock(S, env) ==
    IF Len(S.ip.stacks) = 1 THEN CmdReflect(S)
    ELSE LET r == pop(S.ip)
             n == r.val
             oy == StackPop(r.ip.stacks[2])
             ox == StackPop(oy.st)
             s0 == [r.ip.stacks EXCEPT ![2] = ox.st]
             s1 == IF n > 0 THEN MoveBlock(s0, 1, 2, n)
                   ELSE IF n < 0 /\ n # I32Min
                   THEN [s0 EXCEPT ![2] = DropCells(@, Abs(n))]
                   ELSE s0
         IN  IF n = I32Min /\ env.overflow_checks
             THEN [S EXCEPT !.status = "panic"]
             ELSE [S EXCEPT !.ip = [r.ip EXCEPT !.stacks = Tail(s1),
                                               !.offset = <<ox.val, oy.val>>]]

\* '~'
CmdInputChar(S) ==
    [S EXCEPT !.sent = Send(S.sent, InputEvent("Character", S.ip.id))]

\* FungeGrid::runnable_char_ahead: the first character ahead of pos along
\* delta (wrapped) that is neither blank nor inside a pair of semicolons;
\* Fault when there is none
RECURSIVE RunnableAhead(_, _, _, _, _)
RunnableAhead(g, pos, delta, skipping, fuel) ==
    LET next == <<(pos[1] + delta[1]) % GridWidth(g),
                  (pos[2] + delta[2]) % GridHeight(g)>>
        c == char_at_pos(g, next)
    IN  IF fuel = 0 THEN Fault
        ELSE IF c = Ord[";"]
        THEN RunnableAhead(g, next, delta, ~skipping, fuel - 1)
        ELSE IF skipping \/ c = Ord[" "]
        THEN RunnableAhead(g, next, delta, skipping, fuel - 1)
        ELSE c

runnable_char_ahead(g, pos, delta) ==
    RunnableAhead(g, pos, delta, FALSE, 2 * GridWidth(g) * GridHeight(g) + 1)

\* the instructions of pointer.rs the model does not follow, those that
\* reach outside the process ('=', 'i', 'o'); a run that meets one ends
\* with the status "deferred", and no program of the model does
Deferred == {Ord["="], Ord["i"], Ord["o"]}

\* the facts of 'y' taken from outside the process: the package version, the
\* path separator, the date, the time, the arguments and the environment
OutsideFacts == {4, 6, 15, 16, 19, 20}

\* the values of a sequence pushed one after the other
RECURSIVE PushCells(_, _)
PushCells(ip, cells) ==
    IF cells = <<>> THEN ip ELSE PushCells(push(ip, Head(cells)), Tail(cells))

\* the closure info[n - 1] of 'y' run on the IP: fact n is pushed
SysInfoFact(n, ip, g) ==
    CASE n = 1 -> push(ip, 31)
      [] n = 2 -> push(ip, 4)
      [] n = 3 -> push(ip, 1380339271)
      [] n = 5 -> push(ip, 1)
      [] n = 7 -> push(ip, 2)
      [] n = 8 -> push(ip, ip.id)
      [] n = 9 -> push(ip, 0)
      [] n = 10 -> push_vector(ip, ip.pos)
      [] n = 11 -> push_vector(ip, ip.delta)
      [] n = 12 -> push_vector(ip, ip.offset)
      [] n = 13 -> push_vector(ip, ORIGIN)
      [] n = 14 -> push_vector(ip, <<GridWidth(g), GridHeight(g) + 1>>)
      [] n = 17 -> push(ip, Len(ip.stacks))
      [] n = 18 -> PushCells(ip, [k \in DOMAIN ip.stacks |->
                                     StackLen(ip.stacks[k])])
      [] OTHER -> ip

\* 'y': the selector n is popped; n in 1..20 pushes fact n, n above 20 pops
\* n - 20 cells; n <= 0 pushes all twenty facts, those from outside the
\* process among them
CmdSysInfo(S) ==
    LET r == pop(S.ip)
        n == r.val
    IN  IF n >= 21
        THEN [S EXCEPT !.ip = [r.ip EXCEPT !.stacks[1] = DropCells(@, n - 20)]]
        ELSE IF n <= 0 \/ n \in OutsideFacts
        THEN [S EXCEPT !.ip = r.ip, !.status = "deferred"]
        ELSE [S EXCEPT !.ip = SysInfoFact(n, r.ip, S.grid)]

\* 'l': the code is popped and the active stack permuted; a code outside
\* 0 .. len!-1 (`n as usize` of a negative n is far outside) is not modelled
CmdPermute(S) ==
    LET r == pop(S.ip)
        st == r.ip.stacks[1]
    IN  IF r.val < 0 \/ r.val >= Factorial(StackLen(st))
        THEN [S EXCEPT !.ip = r.ip, !.status = "deferred"]
        ELSE [S EXCEPT !.ip = [r.ip EXCEPT !.stacks[1] = permute(st, r.val)]]

\* the digits 0-9 and a-f
IsDecimal(c) == c >= Ord["0"] /\ c <= Ord["9"]
IsHexLetter(c) == c >= Ord["a"] /\ c <= Ord["f"]

\* InstructionPointer::command: the match over the character.  'k' pops the
\* count; a count of 0 walks once; otherwise the runnable character ahead is
\* executed count times (no time for a negative count).
RECURSIVE command(_, _, _)
RECURSIVE Iterate(_, _, _, _)
Iterate(c, S, env, n) ==
    IF n <= 0 \/ S.status # "ok" THEN S
    ELSE Iterate(c, command(c, S, env), env, n - 1)

\* 'k' executing the character ahead once whatever the count
CmdIterate_Once(S, env) ==
    LET r == pop(S.ip)
        T == [S EXCEPT !.ip = r.ip]
        c == runnable_char_ahead(T.grid, T.ip.pos, T.ip.delta)
    IN  IF r.val = 0 THEN [T EXCEPT !.ip = walk(T.ip, T.grid)]
        ELSE IF c = Fault THEN [T EXCEPT !.status = "hang"]
        ELSE Iterate(c, T, env, 1)

CmdIterate(S, env) ==
    LET r == pop(S.ip)
        T == [S EXCEPT !.ip = r.ip]
        c == runnable_char_ahead(T.grid, T.ip.pos, T.ip.delta)
    IN  IF r.val = 0 THEN [T EXCEPT !.ip = walk(T.ip, T.grid)]
        ELSE IF c = Fault THEN [T EXCEPT !.status = "hang"]
        ELSE Iterate(c, T, env, r.val)

command(c, S, env) ==
    CASE c = Ord[" "] -> CmdSpace(S)
      [] c = Ord["!"] -> CmdNot(S)
      [] c = Ord["quote"] -> CmdStringMode(S)
      [] c = Ord["#"] -> CmdTrampoline(S)
      [] c = Ord["$"] -> CmdPop(S)
      [] c = Ord["%"] -> CmdRem(S)
      [] c = Ord["&"] -> CmdInputInt(S)
      [] c = Ord["'"] -> CmdFetch(S)
      [] c = Ord["*"] -> CmdMul(S)
      [] c = Ord["+"] -> CmdAdd(S)
      [] c = Ord[","] -> CmdOutChar(S, env)
      [] c = Ord["-"] -> CmdSub(S)
      [] c = Ord["."] -> CmdOutInt(S, env)
      [] c = Ord["/"] -> CmdDiv(S)
      [] IsDecimal(c) -> CmdLiteral(S, c - Ord["0"])
      [] c = Ord[":"] -> CmdDup(S)
      [] c = Ord[";"] -> CmdJumpOver(S)
      [] c = Ord["<"] -> CmdGo(S, WEST)
      [] c = Ord[">"] -> CmdGo(S, EAST)
      [] c = Ord["?"] -> CmdGo(S, env.rnd)
      [] c = Ord["@"] -> CmdStop(S)
      [] c = Ord["["] -> CmdTurnLeft(S)
      [] c = Ord["backslash"] -> CmdSwap(S)
      [] c = Ord["]"] -> CmdTurnRight(S)
      [] c = Ord["^"] -> CmdGo(S, NORTH)
      [] c = Ord["_"] -> CmdEastWestIf(S)
      [] c = Ord["backtick"] -> CmdGreater(S)
      [] IsHexLetter(c) -> CmdLiteral(S, c - Ord["a"] + 10)
      [] c = Ord["g"] -> CmdGet(S)
      [] c = Ord["j"] -> CmdJump(S, env)
      [] c = Ord["k"] -> CmdIterate(S, env)
      [] c = Ord["l"] -> CmdPermute(S)
      [] c = Ord["n"] -> CmdClear(S)
      [] c = Ord["p"] -> CmdPut(S)
      [] c = Ord["q"] -> CmdQuit(S)
      [] c = Ord["r"] -> CmdReflect(S)
      [] c = Ord["s"] -> CmdStore(S)
      [] c = Ord["t"] -> CmdSplit(S)
      [] c = Ord["u"] -> CmdStackUnderStack(S, env)
      [] c = Ord["v"] -> CmdGo(S, SOUTH)
      [] c = Ord["w"] -> CmdCompare(S)
      [] c = Ord["x"] -> CmdAbsoluteDelta(S)
      [] c = Ord["z"] -> CmdNop(S)
      [] c = Ord["{"] -> CmdBeginBlock(S, env)
      [] c = Ord["|"] -> CmdNorthSouthIf(S)
      [] c = Ord["}"] -> CmdEndBlock(S, env)
      [] c = Ord["~"] -> CmdInputChar(S)
      [] c = Ord["y"] -> CmdSysInfo(S)
      [] c \in Deferred -> [S EXCEPT !.status = "deferred"]
      [] OTHER -> CmdReflect(S)

\* Befunge::command, default arm: a character that is no instruction inverts
\* the delta unless args.ignore is set
BefungeCmdDefault(S, ignore) == IF ignore THEN S ELSE CmdReflect(S)

\* ------------------------------------------------------------------- host

(***************************************************************************)
(* The host owns the grid, the IP list, the output buffer and the event    *)
(* channel.  A tick steps every live IP once, in list order, and then      *)
(* drains the channel; input typed by the user is delivered between ticks. *)
(*                                                                         *)
(* pc is "idle" between ticks, "step" while the IPs of a tick are being    *)
(* stepped (cur is the list index of the next one) and "drain" while the   *)
(* events the tick has posted are being applied.                           *)
(*                                                                         *)
(* uid, nextUid, qfrom, h and tk are history variables: uid[k] names the   *)
(* IP at index k whatever its id becomes, qfrom[k] is the uid of the IP    *)
(* that sent queue[k], h is the step just taken with the state before it,  *)
(* tk records the tick in progress.                                        *)
(***************************************************************************)
VARIABLES grid, ip_list, queue, out, stdout, awaiting, exit_code, status,
          args, pc, cur, uid, nextUid, qfrom, h, tk, hl, clock

vars == <<grid, ip_list, queue, out, stdout, awaiting, exit_code, status,
          args, pc, cur, uid, nextUid, qfrom, h, tk, hl, clock>>

\* the variables of the engine, which the headless control loop of main
\* drives through Befunge::tick
engine == <<grid, ip_list, queue, out, stdout, awaiting, exit_code, status,
            args, pc, cur, uid, nextUid, qfrom, h, tk>>

\* the programs the model loads, each a text of one or more lines
Programs ==
    { <<Text(<<"1", "t", "@">>)>>,
      <<Text(<<"t", "t">>)>>,
      <<Text(<<"t", "&", "t">>)>>,
      <<Text(<<"t", ".", "q">>)>>,
      <<Text(<<"&", ".", "@">>)>>,
      <<Text(<<"t", "~", ",", "@">>)>>,
      <<Text(<<"0", "1", "-", "0", "g", ".", "@">>)>>,
      <<Text(<<"0", "0", "g", ",", "@">>)>>,
      <<Text(<<"7", "7", "*", "1", "0", "p", "@">>)>>,
      <<Text(<<"quote", "a", " ", "quote", ",", "@">>)>>,
      <<Text(<<"t", "z", "z", "z", "&", "@", "t", "z">>)>>,
      <<Text(<<"0", "7", "-", "0", "x", "@">>)>>,
      <<Text(<<"1", "2", "3", "3", "l", "@">>)>>,
      <<Text(<<"2", "3", "+", ".", "@">>)>>,
      <<Text(<<"quote", "@", "quote", ",", "@">>)>>,
      <<Text(<<"1", "h", "@">>)>>,
      <<Text(<<"0", "{", "0", "}", "@">>)>>,
      <<Text(<<"}", "@">>)>>,
      <<Text(<<"1", "2", "1", "{", "@">>)>>,
      <<Text(<<"0", "1", "-", "{", "@">>)>>,
      <<Text(<<"1", "5", "0", "p", "@">>)>>,
      <<Text(<<"9", "0", "g", "@">>)>>,
      <<Text(<<"_", "0", "_", "1", "|">>), Text(<<" ", " ", " ", " ", "@">>)>>,
      <<Text(<<"|", " ">>), Text(<<"0", " ">>), Text(<<"|", " ">>),
        Text(<<"1", " ">>), Text(<<"_", "@">>)>>,
      <<Text(<<"9", "8", "%", "3", "/", "2", "backtick", "@">>)>>,
      <<Text(<<"0", "v", " ">>), Text(<<"@", ">", "{">>)>>,
      <<Text(<<"7", "1", "{", "1", "}", "@">>)>>,
      <<Text(<<"7", "0", "{", "1", "u", "@">>)>>,
      <<Text(<<"u", "@">>)>>,
      <<Text(<<"5", ".", "6", ",", "@">>)>>,
      <<Text(<<"0", "{", "2", "u", "n", "9", "0", "0", "p", "0", "0", "g",
               "@">>)>>,
      <<Text(<<" ", " ">>)>>,
      <<Text(<<"0", "{", "9", "9", "+", "y", "@">>)>>,
      <<Text(<<"0", "k", "@", "1", "@">>)>>,
      <<Text(<<"v", " ", "t">>), Text(<<">", "2", "k", "&", "@">>)>> }

\* what the user may type for '&' (a run of digits, parsed) and for '~'
NumberInputs == {0, 7}
CharacterInputs == {Ord["a"]}
InputValues(kind) == IF kind = "Number" THEN NumberInputs ELSE CharacterInputs

\* FungeGrid::start_pos without script mode
start_pos == ORIGIN

NoIp == IpNew(ORIGIN, ORIGIN, 0)
NoEvent == [type |-> "None", arg |-> 0, kind |-> "None"]
NoCode == [set |-> FALSE, code |-> 0]

\* the step being taken, with the state it is taken in
Snap(act, idx, ran, c, ipx, ev, from, val) ==
    [act |-> act, idx |-> idx, ran |-> ran, c |-> c, ipx |-> ipx, ev |-> ev,
     from |-> from, val |-> val,
     ip_list |-> ip_list, uid |-> uid, grid |-> grid, out |-> out,
     stdout |-> stdout, queue |-> queue, qfrom |-> qfrom,
     awaiting |-> awaiting, exit_code |-> exit_code, pc |-> pc, cur |-> cur]

\* hl is the headless control loop of main: max_ticks ([set, n]), the ticks
\* counter, the number of calls of Befunge::tick so far, the state of the
\* simulation, whether Ctrl-C has been seen, and the position in the loop
NoLoop == [max |-> NoCode, ticks |-> 0, steps |-> 0, state |-> "started",
           interrupted |-> FALSE, at |-> "none"]

\* TickHandler::speed_up without the lower limit
speed_up_NoFloor(tickrate) == tickrate \div 2

\* TickHandler::speed_up: half the period, not below 16 ms
speed_up(tickrate) ==
    IF tickrate \div 2 > 16 THEN tickrate \div 2 ELSE 16

\* TickHandler::slow_down: twice the period, not above 1024 ms
slow_down(tickrate) ==
    IF tickrate * 2 < 1024 THEN tickrate * 2 ELSE 1024

\* clock is the TickHandler: the period in ms, the time since the producer
\* thread's last tick, the ticks sent and not yet taken by has_tick, and the
\* call made last with the period before it
ClockDefault == [tickrate |-> 128, elapsed |-> 0, pending |-> 0,
                 act |-> "none", prev |-> 128]

NoTick == [uids |-> <<>>, due |-> {}, dead0 |-> {}, ran |-> <<>>,
           posted |-> <<>>, applied |-> <<>>]

InitEngine ==
    \E prog \in Programs : \E quiet \in BOOLEAN : \E oc \in BOOLEAN :
      \E expand \in BOOLEAN : \E ignore \in BOOLEAN :
        /\ grid = GridNew(prog)
        /\ ip_list = <<IpNew(start_pos, EAST, 0)>>
        /\ queue = <<>>
        /\ out = <<>>
        /\ stdout = <<>>
        /\ awaiting = <<>>
        /\ exit_code = NoCode
        /\ status = "ok"
        /\ args = [quiet |-> quiet, overflow_checks |-> oc,
                   expand |-> expand, ignore |-> ignore]
        /\ pc = "idle"
        /\ cur = 0
        /\ uid = <<0>>
        /\ nextUid = 1
        /\ qfrom = <<>>
        /\ h = [act |-> "Init", idx |-> 0, ran |-> "none", c |-> 0,
                ipx |-> NoIp, ev |-> NoEvent, from |-> 0, val |-> 0,
                ip_list |-> <<>>, uid |-> <<>>, grid |-> GridNew(prog),
                out |-> <<>>, stdout |-> <<>>, queue |-> <<>>,
                qfrom |-> <<>>, awaiting |-> <<>>, exit_code |-> NoCode,
                pc |-> "idle", cur |-> 0]
        /\ tk = NoTick

Init == InitEngine /\ hl = NoLoop /\ clock = ClockDefault

\* every IP is dead: the simulation has ended
Ended == \A k \in DOMAIN ip_list : ip_list[k].dead

\* the ids the host is holding an input request for
AwaitedIds == {awaiting[k].id : k \in DOMAIN awaiting}

\* the cells an IP holds in all its stacks
RECURSIVE CellCount(_)
CellCount(stacks) ==
    IF stacks = <<>> THEN 0 ELSE StackLen(Head(stacks)) + CellCount(Tail(stacks))

WithinBounds ==
    /\ Len(ip_list) <= MaxIPs
    /\ Len(out) <= MaxOut
    /\ Len(stdout) <= MaxOut
    /\ \A k \in DOMAIN ip_list : CellCount(ip_list[k].stacks) <= MaxStack

\* the start of an IP's turn with a walk on the first tick as well
Arrive_AlwaysWalks(ip, g) == [walk(ip, g) EXCEPT !.first_tick = FALSE]

\* the start of an IP's turn: no walk on its first tick, one walk on every
\* later one
Arrive(ip, g) ==
    IF ip.first_tick THEN [ip EXCEPT !.first_tick = FALSE] ELSE walk(ip, g)

\* FungeState: when the state ends (Instant, Ticks(n), Char(c), Manual,
\* Never), how the IP moves, what a tick does, and the ticks it has lasted
STARTED == [ends_at |-> [kind |-> "Instant", arg |-> 0],
            move_type |-> "Halted", action |-> "Instruction", ticks |-> 0]
RUNNING == [ends_at |-> [kind |-> "Never", arg |-> 0],
            move_type |-> "Forward", action |-> "Instruction", ticks |-> 0]
STRING_MODE == [ends_at |-> [kind |-> "Char", arg |-> Ord["quote"]],
                move_type |-> "Forward", action |-> "StringPush", ticks |-> 0]

\* FungeState::is_over
is_over(st, c) ==
    CASE st.ends_at.kind = "Instant" -> TRUE
      [] st.ends_at.kind = "Ticks" -> st.ticks = st.ends_at.arg
      [] st.ends_at.kind = "Char" -> st.ticks > 0 /\ c = st.ends_at.arg
      [] OTHER -> FALSE

\* the state Befunge::tick leaves after the action on character c, where
\* acted is the state the action has set or left
NextState(acted, c) ==
    IF is_over(acted, c) THEN RUNNING ELSE [acted EXCEPT !.ticks = @ + 1]

\* string mode in which the closing quote is pushed like any character
StringPush_KeepsMode(c, S) == [S EXCEPT !.ip = push(S.ip, c)]

\* string mode: a quote ends it, a run of blanks is walked over and pushed
\* as one space, any other character is pushed
StringPush(c, S) ==
    IF c = Ord["quote"] THEN [S EXCEPT !.ip.string_mode = FALSE]
    ELSE IF c = Ord[" "]
    THEN LET T == CmdSpace(S)
         IN  IF T.status = "ok" THEN [T EXCEPT !.ip = push(T.ip, Ord[" "])]
             ELSE T
    ELSE [S EXCEPT !.ip = push(S.ip, c)]

\* one IP's turn in a tick: it arrives on its cell and the character there
\* is pushed (string mode) or executed
TickIp(ip, g, sent, o, so, env) ==
    LET ip1 == Arrive(ip, g)
        c == char_at_pos(g, ip1.pos)
        S == [ip |-> ip1, grid |-> g, sent |-> sent, out |-> o,
              stdout |-> so, status |-> "ok"]
    IN  IF env.overflow_checks /\ ~ip.first_tick /\ WalkOverflows(ip)
        THEN [S EXCEPT !.ip = ip, !.status = "panic"]
        ELSE IF ip1.string_mode THEN StringPush(c, S) ELSE command(c, S, env)

\* EventHandler::next looking at the front event without taking it
EventNext_Peek(q) == [ev |-> Head(q), rest |-> q]

\* EventHandler::next: try_recv takes the event at the front of the channel
EventNext(q) == [ev |-> Head(q), rest |-> Tail(q)]

\* s with x inserted so that it becomes the k-th element
InsertAt(s, k, x) == SubSeq(s, 1, k - 1) \o <<x>> \o SubSeq(s, k, Len(s))

\* Spawn(id): a clone of the IP at index id, its delta inverted, is inserted
\* immediately before that IP, and every IP's id becomes its list index
ApplySpawn(list, id) ==
    LET parent == list[id + 1]
        child == [parent EXCEPT !.delta = invert(parent.delta)]
        grown == InsertAt(list, id + 1, child)
    IN  [k \in DOMAIN grown |-> [grown[k] EXCEPT !.id = k - 1]]

\* Kill(code): every IP is marked dead
ApplyKill(list) == [k \in DOMAIN list |-> [list[k] EXCEPT !.dead = TRUE]]

\* an input value reaches the IP at index id: it is pushed on its active
\* stack
ApplyInput(list, id, v) == [list EXCEPT ![id + 1] = push(@, v)]

\* n copies of x
Copies(n, x) == [i \in 1..n |-> x]

TickStart ==
    /\ pc = "idle"
    /\ status = "ok"
    /\ ~Ended
    /\ WithinBounds
    /\ pc' = "step"
    /\ cur' = 0
    /\ tk' = [uids |-> uid,
              due |-> {uid[k] : k \in {j \in DOMAIN ip_list :
                          ~ip_list[j].dead /\ (j - 1) \notin AwaitedIds}},
              dead0 |-> {<<uid[k], ip_list[k]>> : k \in {j \in DOMAIN ip_list :
                          ip_list[j].dead}},
              ran |-> <<>>, posted |-> <<>>, applied |-> <<>>]
    /\ h' = Snap("TickStart", 0, "none", 0, NoIp, NoEvent, 0, 0)
    /\ UNCHANGED <<grid, ip_list, queue, out, stdout, awaiting, exit_code,
                   status, args, hl, clock, uid, nextUid, qfrom>>

StepIP ==
    /\ pc = "step"
    /\ status = "ok"
    /\ cur < Len(ip_list)
    /\ \E rnd \in {NORTH, SOUTH, EAST, WEST} :
        LET k == cur + 1
            ip == ip_list[k]
            skip == ip.dead \/ cur \in AwaitedIds
            env == [quiet |-> args.quiet, rnd |-> rnd,
                    overflow_checks |-> args.overflow_checks]
            S == TickIp(ip, grid, queue, out, stdout, env)
            ipx == Arrive(ip, grid)
            news == SubSeq(S.sent, Len(queue) + 1, Len(S.sent))
        IN  IF skip
            THEN /\ h' = Snap("StepIP", cur, "skip", 0, NoIp, NoEvent, 0, 0)
                 /\ pc' = IF cur + 1 < Len(ip_list) THEN "step"
                          ELSE IF queue = <<>> THEN "idle" ELSE "drain"
                 /\ UNCHANGED <<grid, ip_list, queue, out, stdout, status,
                                qfrom, tk>>
            ELSE /\ ip_list' = [ip_list EXCEPT ![k] = S.ip]
                 /\ grid' = S.grid
                 /\ queue' = S.sent
                 /\ out' = S.out
                 /\ stdout' = S.stdout
                 /\ status' = S.status
                 /\ qfrom' = qfrom \o Copies(Len(news), uid[k])
                 /\ tk' = [tk EXCEPT !.ran = Append(@, uid[k]),
                                     !.posted = @ \o news]
                 /\ h' = Snap("StepIP", cur,
                              IF ipx.string_mode THEN "string" ELSE "exec",
                              char_at_pos(grid, ipx.pos), ipx, NoEvent, 0, 0)
                 /\ pc' = IF cur + 1 < Len(ip_list) THEN "step"
                          ELSE IF S.sent = <<>> THEN "idle" ELSE "drain"
    /\ cur' = cur + 1
    /\ UNCHANGED <<awaiting, exit_code, args, hl, clock, uid, nextUid>>

DrainEvent ==
    /\ pc = "drain"
    /\ status = "ok"
    /\ queue # <<>>
    /\ LET n == EventNext(queue)
           ev == n.ev
           from == Head(qfrom)
       IN  /\ queue' = n.rest
           /\ qfrom' = Tail(qfrom)
           /\ pc' = IF n.rest = <<>> THEN "idle" ELSE "drain"
           /\ tk' = [tk EXCEPT !.applied = Append(@, ev)]
           /\ CASE ev.type = "Spawn" ->
                    /\ ip_list' = ApplySpawn(ip_list, ev.arg)
                    /\ uid' = InsertAt(uid, ev.arg + 1, nextUid)
                    /\ nextUid' = nextUid + 1
                    /\ h' = Snap("DrainEvent", ev.arg, "none", 0, NoIp, ev, from, 0)
                    /\ UNCHANGED <<awaiting, exit_code>>
                [] ev.type = "Kill" ->
                    /\ ip_list' = ApplyKill(ip_list)
                    /\ exit_code' = [set |-> TRUE, code |-> ev.arg]
                    /\ h' = Snap("DrainEvent", 0, "none", 0, NoIp, ev, from, 0)
                    /\ UNCHANGED <<awaiting, uid, nextUid>>
                [] ev.type = "Input" /\ args.quiet ->
                    /\ \E v \in InputValues(ev.kind) :
                         /\ ip_list' = ApplyInput(ip_list, ev.arg, v)
                         /\ h' = Snap("DrainEvent", ev.arg, "none", 0, NoIp,
                                      ev, from, v)
                    /\ UNCHANGED <<awaiting, exit_code, uid, nextUid>>
                [] ev.type = "Input" /\ ~args.quiet ->
                    /\ awaiting' = Append(awaiting,
                           [kind |-> ev.kind, id |-> ev.arg, from |-> from])
                    /\ h' = Snap("DrainEvent", ev.arg, "none", 0, NoIp, ev, from, 0)
                    /\ UNCHANGED <<ip_list, exit_code, uid, nextUid>>
    /\ UNCHANGED <<grid, out, stdout, status, args, hl, clock, cur>>

DeliverInput ==
    /\ pc = "idle"
    /\ status = "ok"
    /\ awaiting # <<>>
    /\ ~Ended
    /\ LET r == Head(awaiting)
       IN  \E v \in InputValues(r.kind) :
             /\ ip_list' = ApplyInput(ip_list, r.id, v)
             /\ h' = Snap("DeliverInput", r.id, "none", 0, NoIp,
                          InputEvent(r.kind, r.id), r.from, v)
    /\ awaiting' = Tail(awaiting)
    /\ UNCHANGED <<grid, queue, out, stdout, exit_code, status, args, hl, clock, pc, cur,
                   uid, nextUid, qfrom, tk>>

Restart ==
    /\ pc = "idle"
    /\ status = "ok"
    /\ ~args.quiet
    /\ h.act # "Init"
    /\ grid' = GridReset(grid)
    /\ ip_list' = <<IpNew(start_pos, EAST, 0)>>
    /\ out' = <<>>
    /\ awaiting' = <<>>
    /\ exit_code' = NoCode
    /\ uid' = <<0>>
    /\ nextUid' = 1
    /\ tk' = NoTick
    /\ h' = Snap("Restart", 0, "none", 0, NoIp, NoEvent, 0, 0)
    /\ UNCHANGED <<queue, stdout, status, args, hl, clock, pc, cur, qfrom>>

Next == TickStart \/ StepIP \/ DrainEvent \/ DeliverInput \/ Restart

Spec == Init /\ [][Next]_vars

\* ------------------------------------------------------ headless control loop

(***************************************************************************)
(* The quiet-mode loop of main:                                            *)
(*   while !befunge.ended() && c.should_continue() {                       *)
(*       input_char_quiet / input_num_quiet / tick;                        *)
(*       if let Some(max) = max_ticks {                                    *)
(*           if ticks > max { break } else { ticks += 1 } } }              *)
(* hl.at is "test" at the loop condition, "body" before the call, "count"  *)
(* before the max_ticks test and "done" after the loop.  What a tick makes *)
(* of the simulation is left open: it runs on, ends, or asks for input.    *)
(***************************************************************************)

\* the largest --max tried
MaxTicksArg == 3

\* the calls of Befunge::tick followed when there is no --max
MaxLoopSteps == 6

MaxTicksArgs ==
    {NoCode} \cup {[set |-> TRUE, code |-> m] : m \in 0..MaxTicksArg}

InitHeadless ==
    /\ InitEngine
    /\ args.quiet /\ ~args.expand /\ ~args.ignore /\ ~args.overflow_checks
    /\ \E m \in MaxTicksArgs : hl = [NoLoop EXCEPT !.max = m, !.at = "test"]
    /\ clock = ClockDefault

\* while !befunge.ended() && c.should_continue()
LoopTest ==
    /\ hl.at = "test"
    /\ hl' = [hl EXCEPT !.at = IF hl.state # "ended" /\ ~hl.interrupted
                                THEN "body" ELSE "done"]
    /\ UNCHANGED <<engine, clock>>

\* befunge.tick()
LoopTick ==
    /\ hl.at = "body"
    /\ hl.state \in {"started", "running"}
    /\ hl.steps < MaxLoopSteps
    /\ \E st \in {"running", "ended", "inputting_char", "inputting_num"} :
          hl' = [hl EXCEPT !.steps = @ + 1, !.state = st, !.at = "count"]
    /\ UNCHANGED <<engine, clock>>

\* befunge.input_char_quiet() / befunge.input_num_quiet()
LoopInput ==
    /\ hl.at = "body"
    /\ hl.state \in {"inputting_char", "inputting_num"}
    /\ hl' = [hl EXCEPT !.state = "running", !.at = "count"]
    /\ UNCHANGED <<engine, clock>>

\* if let Some(max) = max_ticks { if ticks > max { break } else { ticks += 1 } }
LoopCount ==
    /\ hl.at = "count"
    /\ hl' = IF hl.max.set
             THEN IF hl.ticks > hl.max.code THEN [hl EXCEPT !.at = "done"]
                  ELSE [hl EXCEPT !.ticks = @ + 1, !.at = "test"]
             ELSE [hl EXCEPT !.at = "test"]
    /\ UNCHANGED <<engine, clock>>

\* Ctrl-C arrives
Interrupt ==
    /\ hl.at \in {"test", "body", "count"}
    /\ ~hl.interrupted
    /\ hl' = [hl EXCEPT !.interrupted = TRUE]
    /\ UNCHANGED <<engine, clock>>

NextHeadless == LoopTest \/ LoopTick \/ LoopInput \/ LoopCount \/ Interrupt

SpecHeadless == InitHeadless /\ [][NextHeadless]_vars

\* ------------------------------------------------------------- tick clock

\* the step of time followed, in ms
Quantum == 16

\* the ticks that may wait in the channel
MaxPending == 2

InitClock ==
    /\ InitEngine
    /\ ~args.quiet /\ ~args.expand /\ ~args.ignore /\ ~args.overflow_checks
    /\ hl = NoLoop
    /\ clock = ClockDefault

\* the user asks for a faster clock
SpeedUp ==
    /\ clock' = [clock EXCEPT !.tickrate = speed_up(@), !.act = "speed_up",
                              !.prev = clock.tickrate]
    /\ UNCHANGED <<engine, hl>>

\* the user asks for a slower clock
SlowDown ==
    /\ clock' = [clock EXCEPT !.tickrate = slow_down(@),
                              !.act = "slow_down", !.prev = clock.tickrate]
    /\ UNCHANGED <<engine, hl>>

\* time passes while the producer thread has no tick to send
TimePasses ==
    /\ clock.elapsed < clock.tickrate
    /\ clock' = [clock EXCEPT !.elapsed = @ + Quantum, !.act = "time",
                              !.prev = clock.tickrate]
    /\ UNCHANGED <<engine, hl>>

\* the producer thread: last_tick.elapsed() >= tickrate, a tick is sent
ProducerSend ==
    /\ clock.elapsed >= clock.tickrate
    /\ clock.pending < MaxPending
    /\ clock' = [clock EXCEPT !.elapsed = 0, !.pending = @ + 1,
                              !.act = "send",
                              !.prev = clock.tickrate]
    /\ UNCHANGED <<engine, hl>>

\* TickHandler::has_tick taking a tick from the channel
HasTick ==
    /\ clock.pending > 0
    /\ clock' = [clock EXCEPT !.pending = @ - 1, !.act = "has_tick",
                              !.prev = clock.tickrate]
    /\ UNCHANGED <<engine, hl>>

NextClock == SpeedUp \/ SlowDown \/ TimePasses \/ ProducerSend \/ HasTick

SpecClock == InitClock /\ [][NextClock]_vars

\* ------------------------------------------------------------- properties

\* the step just taken was the turn of an IP that executed character c
Executed(c) == h.act = "StepIP" /\ h.ran = "exec" /\ h.c = Ord[c]

\* the list index of the IP the step just taken was about
HIdx == h.idx + 1

\* C4: at every tick boundary (the event queue drained) the IP stored at
\* index k of the IP list has id k, after any number of spawns.
C4_IdIsListIndex ==
    pc = "idle" => \A k \in DOMAIN ip_list : ip_list[k].id = k - 1

\* C4 witness: a tick boundary after two spawns
C4_Witness == pc = "idle" /\ Len(ip_list) >= 3 /\ nextUid >= 3

\* the characters the grid properties write
ProbeChars == {Ord[" "], Ord["@"], Ord["z"]}

\* the positions inside grid g
Inside(g) == {<<x, y>> : x \in 0..(g.width - 1), y \in 0..(g.height - 1)}

\* C9: for every in-bounds position p and every character c, set_char(p, c)
\* followed by char_at(p) returns c, and every cell other than p keeps its
\* previous value.
C9_SetCharThenCharAt ==
    \A p \in Inside(grid) : \A c \in ProbeChars :
        LET r == set_char(grid, p[1], p[2], c)
        IN  /\ r.ok
            /\ char_at(r.grid, p[1], p[2]) = c
            /\ char_at_pos(set_char_pos(grid, p, c), p) = c
            /\ \A o \in Inside(grid) \ {p} :
                 char_at(r.grid, o[1], o[2]) = char_at(grid, o[1], o[2])

\* C9 witness: `p` has just written a cell inside the grid, and reading the
\* cell gives the character written
C9_Witness ==
    /\ Executed("p")
    /\ grid.width = h.grid.width
    /\ grid.chars # h.grid.chars
    /\ char_at(grid, 1, 0) = Ord["1"]

\* positions with a negative coordinate, around the grid and at the far end
\* of the i32 range
NegativePositions ==
    LET xs == (-Margin)..(grid.width + Margin) \cup {I32Min, I32Max}
        ys == (-Margin)..(grid.height + Margin) \cup {I32Min, I32Max}
    IN  {p \in xs \X ys : p[1] < 0 \/ p[2] < 0}

C6_InputOnlyPosts ==
    \A c \in {"&", "~"} :
        Executed(c) =>
            /\ status = "ok"
            /\ queue = Append(h.queue,
                   InputEvent(IF c = "&" THEN "Number" ELSE "Character",
                              h.ipx.id))
            /\ ip_list = [h.ip_list EXCEPT ![HIdx] = h.ipx]
            /\ grid = h.grid
            /\ out = h.out
            /\ stdout = h.stdout
            /\ awaiting = h.awaiting

\* C6 witness: an IP other than the first of the list has just executed `&`
C6_Witness == Executed("&") /\ h.ipx.id = 1 /\ Len(queue) >= 1

\* a Kill event is among the events the host has applied in this tick
KillApplied == \E k \in DOMAIN tk.applied : tk.applied[k].type = "Kill"

\* C1: once a Kill event posted by `q` has been drained, every IP of the
\* list is dead and no IP executes an instruction in any later tick, until a
\* reset.
C1_KillEndsAll ==
    /\ Executed("q") =>
          /\ status = "ok"
          /\ queue = Append(h.queue, KillEvent(pop(h.ipx).val))
    /\ (KillApplied \/ exit_code.set) => Ended
    /\ (h.act = "StepIP" /\ h.ran # "skip") =>
          ~h.exit_code.set /\ ~h.ip_list[HIdx].dead
    /\ h.act = "TickStart" => ~h.exit_code.set

\* C1 witness: a Kill has been drained in a list of two IPs, one of which
\* had not stopped by itself
C1_Witness ==
    /\ pc = "idle"
    /\ exit_code.set
    /\ KillApplied
    /\ Len(ip_list) >= 2

\* C3: a Spawn event takes effect only after every IP has been stepped for
\* the current tick: while the tick in which `t` is executed is stepping, the
\* IP list is unchanged, and the new IP executes its first instruction no
\* earlier than the following tick.
C3_SpawnAfterStepping ==
    /\ Executed("t") =>
          /\ status = "ok"
          /\ queue = Append(h.queue, SpawnEvent(h.ipx.id))
          /\ ip_list = [h.ip_list EXCEPT ![HIdx] = h.ipx]
    /\ pc = "step" => uid = tk.uids
    /\ h.act = "StepIP" => uid = tk.uids /\ Len(ip_list) = Len(tk.uids)
    /\ \A k \in DOMAIN tk.ran :
          \E j \in DOMAIN tk.uids : tk.uids[j] = tk.ran[k]
    /\ (h.act = "DrainEvent" /\ h.ev.type = "Spawn") =>
          /\ h.pc = "drain"
          /\ h.cur = Len(tk.uids)
          /\ Len(tk.ran) = Cardinality(tk.due)
          /\ Len(ip_list) = Len(h.ip_list) + 1

\* C3 witness: `t` has been executed, its Spawn event is pending, and IPs of
\* the same tick are still to be stepped
C3_Witness ==
    /\ pc = "step"
    /\ \E k \in DOMAIN queue : queue[k].type = "Spawn"
    /\ Executed("t")
    /\ cur < Len(ip_list)

\* C8: every event posted during a tick is applied at most once, the queue
\* is drained only after all IPs have been stepped for the tick, and no
\* event is applied while IPs of the tick are still being stepped.
C8_EventsAppliedOnce ==
    /\ Len(tk.applied) <= Len(tk.posted)
    /\ tk.applied = SubSeq(tk.posted, 1, Len(tk.applied))
    /\ tk.posted = tk.applied \o queue
    /\ pc = "step" => tk.applied = <<>>
    /\ pc = "idle" => queue = <<>>
    /\ h.act = "DrainEvent" => h.pc = "drain" /\ h.cur = Len(tk.uids)

\* C8 witness: a tick has ended with two events posted and applied
C8_Witness == pc = "idle" /\ Len(tk.applied) >= 2 /\ tk.applied = tk.posted

\* the elements of a sequence
Range(s) == {s[k] : k \in DOMAIN s}

\* the step just taken applied a Spawn event
SpawnApplied == h.act = "DrainEvent" /\ h.ev.type = "Spawn"

\* C2: when the IP with id i executes `t` a Spawn(i) event is posted; after
\* the event is drained the list has exactly one more entry, the new IP sits
\* immediately before its parent (the IP that executed the `t`) and is a
\* clone of it except that its delta is the inverse of the parent's; the
\* program `1t@` gives two IPs with ids 0 and 1.
C2_SpawnClonesParent ==
    /\ Executed("t") => queue = Append(h.queue, SpawnEvent(h.ipx.id))
    /\ SpawnApplied =>
          /\ Len(ip_list) = Len(h.ip_list) + 1
          /\ \E j \in 1..(Len(ip_list) - 1) :
                /\ uid[j] \notin Range(h.uid)
                /\ uid[j + 1] = h.from
                /\ ip_list[j] = [ip_list[j + 1] EXCEPT
                                    !.delta = invert(@), !.id = j - 1]
    /\ (SpawnApplied /\ h.grid.og_chars = <<Text(<<"1", "t", "@">>)>>) =>
          /\ Len(ip_list) = 2
          /\ ip_list[1].id = 0 /\ ip_list[2].id = 1

\* the IPs (by uid) that have asked for input and not been given it
Requesters(aw) == {aw[k].from : k \in DOMAIN aw}

\* the step just taken gave an input value to an IP
InputGiven ==
    \/ h.act = "DeliverInput"
    \/ h.act = "DrainEvent" /\ h.ev.type = "Input" /\ args.quiet

\* C7: while an IP is awaiting input after `&`/`~` it executes no further
\* instruction until a value is delivered, every other live IP keeps being
\* stepped once per tick, and the value delivered is pushed on the
\* requesting IP's active stack.
C7_OnlyRequesterWaits ==
    /\ (h.act = "StepIP" /\ h.ran # "skip") =>
          h.uid[HIdx] \notin Requesters(h.awaiting)
    /\ (h.act = "StepIP" /\ h.ran = "skip") =>
          h.ip_list[HIdx].dead \/ h.uid[HIdx] \in Requesters(h.awaiting)
    /\ InputGiven =>
          \E k \in DOMAIN ip_list : \E j \in DOMAIN h.ip_list :
             /\ uid[k] = h.from
             /\ h.uid[j] = h.from
             /\ ip_list[k] = push(h.ip_list[j], h.val)

\* C5: `@` marks only the executing IP dead and changes nothing of any other
\* IP; an IP that is dead when a tick starts stays in the list, stays dead,
\* and keeps its position, delta and stacks; the turn of a dead IP changes
\* neither the output nor anything else.
C5_DeadStaysDead ==
    /\ Executed("@") =>
          /\ ip_list = [h.ip_list EXCEPT ![HIdx] = [h.ipx EXCEPT !.dead = TRUE]]
          /\ grid = h.grid /\ out = h.out /\ stdout = h.stdout
          /\ queue = h.queue
    /\ \A e \in tk.dead0 :
          \E k \in DOMAIN ip_list :
             /\ uid[k] = e[1]
             /\ ip_list[k].dead
             /\ ip_list[k].pos = e[2].pos
             /\ ip_list[k].delta = e[2].delta
             /\ ip_list[k].stacks = e[2].stacks
    /\ (h.act = "StepIP" /\ h.ip_list[HIdx].dead) =>
          /\ h.ran = "skip"
          /\ ip_list = h.ip_list
          /\ out = h.out /\ stdout = h.stdout /\ grid = h.grid
          /\ queue = h.queue

\* the deltas the walk properties try: unit steps, steps as long as and
\* longer than the grid in both signs, and the ends of the i32 range
DeltaProbe(g) ==
    {I32Min, I32Min + 1, 0 - (g.width + Margin), 0 - g.width, 0 - g.height,
     0 - 1, 0, 1, g.height, g.width, g.width + Margin, I32Max}

Directions == {"Up", "Down", "Right", "Left"}

\* C11: for every in-bounds position p and every delta d, negative or
\* larger than the grid, the walk, the reverse walk and the cell ahead have
\* 0 <= x < width and 0 <= y < height; hence the position of every IP is
\* always inside the grid.
C11_WalkStaysInside ==
    /\ \A k \in DOMAIN ip_list : ip_list[k].pos \in Inside(grid)
    /\ \A p \in Inside(grid) : \A dx \in DeltaProbe(grid) :
          \A dy \in DeltaProbe(grid) :
             LET ip == [NoIp EXCEPT !.pos = p, !.delta = <<dx, dy>>]
             IN  /\ walk(ip, grid).pos \in Inside(grid)
                 /\ walk_reverse(ip, grid).pos \in Inside(grid)
                 /\ cell_ahead_ip(grid, ip) \in Inside(grid)
    /\ \A p \in Inside(grid) : \A dir \in Directions :
          step(grid, p[1], p[2], dir) \in Inside(grid)

\* C11 witness: an IP whose delta is longer than the grid is wide, and
\* negative, has just walked
C11_Witness ==
    /\ h.act = "StepIP" /\ h.ran = "exec"
    /\ ~h.ip_list[HIdx].first_tick
    /\ h.ip_list[HIdx].delta[1] < 0 - grid.width
    /\ ip_list[HIdx].pos # h.ip_list[HIdx].pos

\* the longest stack the permutation property tries
PermLen == 3

\* a stack of n distinct cells, and the active stacks of the IPs
DistinctStack(n) == [StackDefault EXCEPT !.inner = [i \in 1..n |-> 10 * i]]
ActiveStacks == {ip_list[k].stacks[1] : k \in DOMAIN ip_list}

\* the number of cells of sequence s equal to v
CountOf(s, v) == Cardinality({i \in DOMAIN s : s[i] = v})

\* C12: permute(code) only reorders: same length and same multiset of
\* cells; over the len! codes applied to a stack of distinct cells the len!
\* results are pairwise distinct; new position i holds the cell that was at
\* permutation[i], so code 0 is the identity.
C12_PermuteIsBijection ==
    /\ \A n \in 0..PermLen :
          LET st == DistinctStack(n)
              codes == 0..(Factorial(n) - 1)
          IN  /\ \A a \in codes : \A b \in codes :
                    a # b => permute(st, a).inner # permute(st, b).inner
              /\ \A a \in codes :
                    LET perm == LehmerToPermutation(LehmerFromDecimal(a, n))
                    IN  /\ Range(perm) = 0..(n - 1)
                        /\ DataPermute([DataDefault EXCEPT !.inner = st.inner],
                                       a).inner = permute(st, a).inner
                        /\ \A i \in 1..n :
                              permute(st, a).inner[i] = st.inner[perm[i] + 1]
    /\ \A st \in ActiveStacks :
          \A a \in 0..(Factorial(StackLen(st)) - 1) :
             LET r == permute(st, a)
             IN  /\ StackLen(r) = StackLen(st)
                 /\ \A v \in Range(st.inner) \cup Range(r.inner) :
                       CountOf(r.inner, v) = CountOf(st.inner, v)
                 /\ a = 0 => r = st
    /\ Executed("l") =>
          LET r == pop(h.ipx)
          IN  (r.val >= 0 /\ r.val < Factorial(StackLen(r.ip.stacks[1]))) =>
                 /\ status = "ok"
                 /\ Len(ip_list[HIdx].stacks[1].inner)
                      = Len(r.ip.stacks[1].inner)
                 /\ \A v \in Range(r.ip.stacks[1].inner) :
                       CountOf(ip_list[HIdx].stacks[1].inner, v)
                         = CountOf(r.ip.stacks[1].inner, v)

\* C12 witness: `l` has just reordered an active stack of three cells
C12_Witness ==
    /\ Executed("l")
    /\ status = "ok"
    /\ Len(ip_list[HIdx].stacks[1].inner) = 3
    /\ ip_list[HIdx].stacks[1].inner # pop(h.ipx).ip.stacks[1].inner

\* the records of one IP's turn with n zeros put on the empty active stack
PadZeros(S, n) == [S EXCEPT !.ip.stacks[1].inner = Copies(n, 0)]

\* T is what A is, except for zeros left at the bottom of T's stacks
SameButZeros(T, A) ==
    /\ [T EXCEPT !.ip.stacks = A.ip.stacks] = A
    /\ Len(T.ip.stacks) = Len(A.ip.stacks)
    /\ \A i \in DOMAIN T.ip.stacks :
          /\ [T.ip.stacks[i] EXCEPT !.inner = <<>>]
                = [A.ip.stacks[i] EXCEPT !.inner = <<>>]
          /\ \E j \in 0..Len(T.ip.stacks[i].inner) :
                T.ip.stacks[i].inner = Copies(j, 0) \o A.ip.stacks[i].inner

\* the instructions that pop
Popping ==
    {Ord[c] : c \in {"!", "$", "%", "*", "+", ",", "-", ".", "/", ":",
                     "backslash", "_", "backtick", "g", "j", "k", "l", "n",
                     "p", "q", "s", "w", "x", "{", "|", "}", "u"}}

\* the most zeros put under an instruction
MaxPad == 3

\* an IP with an empty active stack standing on the start cell of the grid
EmptyTurn ==
    [ip |-> [IpNew(start_pos, EAST, 0) EXCEPT !.first_tick = FALSE],
     grid |-> grid, sent |-> <<>>, out |-> <<>>, stdout |-> <<>>,
     status |-> "ok"]

\* the environment of the step just taken
EnvNow == [quiet |-> args.quiet, rnd |-> EAST,
           overflow_checks |-> args.overflow_checks]

\* C13: a pop from an empty stack gives 0 and leaves the stack empty in every
\* combination of queue mode and invert mode (FungeStack) and in both modes
\* of FungeData, and an instruction run on an empty active stack ends as it
\* does on a stack of zeros: the same IP, grid, output, events and status,
\* the zeros it did not pop apart
C13_PopEmptyIsZero ==
    /\ \A qm \in BOOLEAN : \A im \in BOOLEAN :
          LET e == [StackDefault EXCEPT !.queue_mode = qm, !.invert_mode = im]
          IN  StackPop(e) = [val |-> 0, st |-> e]
    /\ \A m \in {"Stack", "Queue"} :
          LET e == [DataDefault EXCEPT !.mode = m]
          IN  DataPop(e) = [val |-> 0, st |-> e]
    /\ \A k \in DOMAIN ip_list : \A i \in DOMAIN ip_list[k].stacks :
          ip_list[k].stacks[i].inner = <<>>
             => pop([ip_list[k] EXCEPT !.stacks = <<ip_list[k].stacks[i]>>])
                   = [val |-> 0,
                      ip |-> [ip_list[k] EXCEPT
                                 !.stacks = <<ip_list[k].stacks[i]>>]]
    /\ \A c \in Popping : \A n \in 1..MaxPad :
          SameButZeros(command(c, PadZeros(EmptyTurn, n), EnvNow),
                       command(c, EmptyTurn, EnvNow))
    /\ (/\ h.act = "StepIP" /\ h.ran = "exec" /\ h.c \in Popping
        /\ h.ipx.stacks[1].inner = <<>>)
          => \A n \in 1..MaxPad :
                LET B == [ip |-> h.ipx, grid |-> h.grid, sent |-> h.queue,
                          out |-> h.out, stdout |-> h.stdout, status |-> "ok"]
                    A == [ip |-> ip_list[HIdx], grid |-> grid, sent |-> queue,
                          out |-> out, stdout |-> stdout, status |-> status]
                IN  SameButZeros(command(h.c, PadZeros(B, n), EnvNow), A)

\* `.` has been executed on an empty stack and has written the number 0
C13_Witness ==
    /\ Executed(".")
    /\ h.ipx.stacks[1].inner = <<>>
    /\ ip_list[HIdx].stacks[1].inner = <<>>
    /\ (out = FormatInt(0) \/ stdout = FormatInt(0))


\* the program of the addition scenario is loaded
AddProgram == grid = GridNew(<<Text(<<"2", "3", "+", ".", "@">>)>>)

\* C14 as stated: `23+.@` ends with the IP halted, an empty active stack and
\* the output buffer holding exactly "5 "
C14_OutputBufferIsFive ==
    (AddProgram /\ Ended)
       => /\ Len(ip_list) = 1
          /\ ip_list[1].stacks[1].inner = <<>>
          /\ out = Text(<<"5", " ">>)

\* C14, amended: `23+.@` ends with the IP halted and an empty active stack; in
\* interactive mode the output buffer holds exactly "5 " and nothing went to
\* standard output, in quiet mode "5 " went to standard output and the output
\* buffer is empty
C14_OutputIsFive ==
    (AddProgram /\ Ended)
       => /\ Len(ip_list) = 1
          /\ ip_list[1].stacks[1].inner = <<>>
          /\ Len(ip_list[1].stacks) = 1
          /\ status = "ok"
          /\ IF args.quiet
             THEN out = <<>> /\ stdout = Text(<<"5", " ">>)
             ELSE out = Text(<<"5", " ">>) /\ stdout = <<>>

\* `@` has just halted the IP of `23+.@` in quiet mode
C14_Witness ==
    /\ AddProgram
    /\ Ended
    /\ Executed("@")
    /\ args.quiet
    /\ stdout = Text(<<"5", " ">>)


\* the operands the binary operators are tried on
SmallOperands == {0 - 7, 0 - 2, 0 - 1, 0, 1, 2, 7}

\* the active stack after instruction c is run on the cells s
StackAfter(c, s) ==
    command(c, [EmptyTurn EXCEPT !.ip.stacks[1].inner = s],
            EnvNow).ip.stacks[1].inner

\* q and r are the quotient and the remainder of the truncated division of
\* y by x # 0
IsTruncDiv(y, x, q, r) ==
    /\ y = (q * x) + r
    /\ Abs(r) < Abs(x)
    /\ (r = 0 \/ (r < 0) = (y < 0))

\* what a binary operator leaves of the cells rest, y, x (x on top)
BinaryResult(c, rest, y, x, after) ==
    /\ Len(after) = Len(rest) + 1
    /\ SubSeq(after, 1, Len(rest)) = rest
    /\ LET v == after[Len(after)]
       IN  CASE c = Ord["-"] -> v = y - x
             [] c = Ord["backtick"] -> v = (IF y > x THEN 1 ELSE 0)
             [] c = Ord["/"] ->
                  x # 0 => \E r \in (0 - Abs(x))..Abs(x) :
                              IsTruncDiv(y, x, v, r)
             [] c = Ord["%"] ->
                  x # 0 => \E q \in (0 - Abs(y))..Abs(y) :
                              IsTruncDiv(y, x, q, v)

BinaryOperators == {Ord["-"], Ord["/"], Ord["%"], Ord["backtick"]}

\* C15: `-`, `/`, `%` and the backtick pop x, then y, and push one value
\* computed with y on the left (y-x, y/x, y%x, 1 iff y > x), on every pair of
\* small operands and at every step that executes one of them on two cells
\* or more
C15_SecondPoppedIsLeft ==
    /\ \A c \in BinaryOperators : \A y \in SmallOperands :
          \A x \in SmallOperands :
             BinaryResult(c, <<9>>, y, x, StackAfter(c, <<9, y, x>>))
    /\ (/\ h.act = "StepIP" /\ h.ran = "exec" /\ h.c \in BinaryOperators
        /\ Len(h.ipx.stacks[1].inner) >= 2)
          => LET s == h.ipx.stacks[1].inner
                 n == Len(s)
             IN  BinaryResult(h.c, SubSeq(s, 1, n - 2), s[n - 1], s[n],
                              ip_list[HIdx].stacks[1].inner)

\* `/` has been executed on 1 below 3 and has pushed 1/3 = 0
C15_Witness ==
    /\ Executed("/")
    /\ h.ipx.stacks[1].inner = <<1, 3>>
    /\ ip_list[HIdx].stacks[1].inner = <<0>>


\* the operands the arithmetic instructions are tried on
ExtremeOperands ==
    {I32Min, I32Min + 1, 0 - 65536, 0 - 7, 0 - 1, 0, 1, 2, 7, 65536,
     I32Max - 1, I32Max}

\* n = Hi(n) * 2^16 + Lo(n) with 0 <= Lo(n) < 2^16
Hi(n) == n \div 65536
Lo(n) == n % 65536

\* the number hi * 2^16 + lo clamped to the i32 range
ClampHiLo(hi, lo) ==
    LET carry == lo \div 65536
        top == hi + carry
    IN  IF top > 32767 THEN I32Max
        ELSE IF top < 0 - 32768 THEN I32Min
        ELSE (top * 65536) + (lo % 65536)

\* v is the exact product of x and y clamped to the i32 range
IsClampedProduct(x, y, v) ==
    LET edge == IF (x < 0) = (y < 0) THEN I32Max ELSE I32Min
    IN  IF x = 0 \/ y = 0 THEN v = 0
        ELSE IF x = I32Min \/ y = I32Min
        THEN v = (IF x = 1 \/ y = 1 THEN I32Min ELSE edge)
        ELSE IF Abs(y) <= I32Max \div Abs(x) THEN v = x * y
        ELSE v = edge

\* the arithmetic arms of InstructionPointer::command: the sum, difference
\* and product are clamped, never wrapped, a zero divisor gives 0, and the
\* instruction completes
PointerArithmeticTotal ==
    \A y \in ExtremeOperands : \A x \in ExtremeOperands :
       /\ StackAfter(Ord["+"], <<y, x>>)
             = <<ClampHiLo(Hi(y) + Hi(x), Lo(y) + Lo(x))>>
       /\ StackAfter(Ord["-"], <<y, x>>)
             = <<ClampHiLo(Hi(y) - Hi(x), Lo(y) - Lo(x))>>
       /\ LET after == StackAfter(Ord["*"], <<y, x>>)
          IN  Len(after) = 1 /\ IsClampedProduct(x, y, after[1])
       /\ \A c \in {Ord["/"], Ord["%"]} :
             LET T == command(c, [EmptyTurn EXCEPT
                                     !.ip.stacks[1].inner = <<y, x>>], EnvNow)
             IN  /\ T.status = "ok"
                 /\ Len(T.ip.stacks[1].inner) = 1
                 /\ T.ip.stacks[1].inner[1] \in I32Min..I32Max
                 /\ (x = 0 => T.ip.stacks[1].inner = <<0>>)

\* the arithmetic arms of Befunge::command: `/` and `%` complete, and give 0
\* for a zero divisor
BefungeArithmeticTotal ==
    \A y \in ExtremeOperands : \A x \in ExtremeOperands :
       /\ BefungeCmdDiv(y, x).ok
       /\ BefungeCmdRem(y, x).ok
       /\ (x = 0 => BefungeCmdDiv(y, x).val = 0 /\ BefungeCmdRem(y, x).val = 0)

\* C16: for all operands + - * push the exact result clamped to the i32
\* range, / and % push 0 for a zero divisor, and no pair of operands, i32::MIN
\* with divisor -1 included, makes an arithmetic instruction fault
C16_ArithmeticNeverFaults ==
    PointerArithmeticTotal /\ BefungeArithmeticTotal


\* what `_` or `|` makes of the IP before: the top cell, 0 when there is
\* none, is popped and chooses the delta; nothing else changes
BranchResult(c, before, after) ==
    LET s == before.stacks[1].inner
        v == IF s = <<>> THEN 0 ELSE s[Len(s)]
        rest == IF s = <<>> THEN <<>> ELSE SubSeq(s, 1, Len(s) - 1)
        d == IF c = Ord["_"] THEN (IF v = 0 THEN EAST ELSE WEST)
             ELSE (IF v = 0 THEN SOUTH ELSE NORTH)
    IN  after = [before EXCEPT !.stacks[1].inner = rest, !.delta = d]

\* the stacks `_` and `|` are tried on
BranchStacks == {<<>>, <<0>>, <<5, 0>>, <<1>>, <<0, 0 - 1>>, <<0, 7>>}

\* C17: `_` pops one value and sets delta east if it is 0, west otherwise;
\* `|` pops one value and sets delta south if it is 0, north otherwise; on an
\* empty stack both take the zero branch
C17_BranchOnZero ==
    /\ \A c \in {Ord["_"], Ord["|"]} : \A s \in BranchStacks :
          \A d \in {NORTH, SOUTH, EAST, WEST} :
             LET B == [EmptyTurn EXCEPT !.ip.stacks[1].inner = s,
                                         !.ip.delta = d]
                 T == command(c, B, EnvNow)
             IN  /\ BranchResult(c, B.ip, T.ip)
                 /\ [T EXCEPT !.ip = B.ip] = B
    /\ (Executed("_") \/ Executed("|"))
          => BranchResult(h.c, h.ipx, ip_list[HIdx])

\* `|` has been executed on the single cell 1 and has turned the IP north
C17_Witness ==
    /\ Executed("|")
    /\ h.ipx.stacks[1].inner = <<1>>
    /\ h.ipx.delta # NORTH
    /\ ip_list[HIdx].delta = NORTH
    /\ ip_list[HIdx].stacks[1].inner = <<>>


\* the non-negative positions up to Margin cells beyond the width or the
\* height of grid g
Beyond(g) ==
    {<<x, y>> : x \in 0..(g.width + Margin - 1),
                y \in 0..(g.height + Margin - 1)} \ Inside(g)

\* g2 is g grown with blank cells just far enough to hold pos, with c
\* written at pos
Expanded(g, pos, c, g2) ==
    /\ g2.width = (IF pos[1] >= g.width THEN pos[1] + 1 ELSE g.width)
    /\ g2.height = (IF pos[2] >= g.height THEN pos[2] + 1 ELSE g.height)
    /\ Len(g2.chars) = g2.height
    /\ \A m \in 1..g2.height : Len(g2.chars[m]) = g2.width
    /\ g2.og_chars = g.og_chars
    /\ \A o \in Inside(g2) :
          char_at(g2, o[1], o[2])
             = (IF o = pos THEN c
                ELSE IF o \in Inside(g) THEN char_at(g, o[1], o[2])
                ELSE Ord[" "])

\* the grid of the scenario: width 3, height 1
Grid3x1 == GridNew(<<Text(<<"a", "b", "p">>)>>)

\* the position `p` is about to write and the character it writes, for the
\* IP before
PutTarget(before) ==
    LET v == pop_vector(before)
        c == pop_char(v.ip)
    IN  [pos |-> VecAdd(v.val, c.ip.offset), c |-> c.val]

\* C18: with expansion enabled a `p` write to a non-negative position beyond
\* the width or height grows the grid with blank cells until the position is
\* inside and then writes: on the 3x1 grid a write of c to (5,0) leaves width
\* >= 6 and c at (5,0), the old cells as they were and the new ones blank
C18_PutExpandsGrid ==
    /\ \A c \in ProbeChars :
          LET B == [EmptyTurn EXCEPT !.grid = Grid3x1,
                                      !.ip.stacks[1].inner = <<c, 5, 0>>]
              T == BefungeCmdPut(B, TRUE)
              r == set_char_or_expand(Grid3x1, 5, 0, c)
          IN  /\ r.width >= 6
              /\ char_at(r, 5, 0) = c
              /\ Expanded(Grid3x1, <<5, 0>>, c, r)
              /\ T.status = "ok" /\ T.grid = r
              /\ command(Ord["p"], B, EnvNow).grid = r
    /\ \A pos \in Beyond(grid) : \A c \in {Ord["z"]} :
          /\ Expanded(grid, pos, c, set_char_or_expand(grid, pos[1], pos[2], c))
          /\ set_char_expand(grid, pos, c, TRUE)
                = [grid |-> set_char_or_expand(grid, pos[1], pos[2], c),
                   ok |-> TRUE]
    /\ (/\ Executed("p") /\ args.expand
        /\ ~is_negative(PutTarget(h.ipx).pos)
        /\ PutTarget(h.ipx).pos \notin Inside(h.grid))
          => /\ status = "ok"
             /\ Expanded(h.grid, PutTarget(h.ipx).pos, PutTarget(h.ipx).c, grid)

\* with expansion enabled `p` has written beyond the width of the grid, and
\* the grid has grown by the column written
C18_Witness ==
    /\ Executed("p")
    /\ args.expand
    /\ PutTarget(h.ipx).pos = <<5, 0>>
    /\ h.grid.width = 5
    /\ grid.width = 6
    /\ char_at(grid, 5, 0) = PutTarget(h.ipx).c


\* the turn of the step just taken, before its instruction
TurnBefore ==
    [ip |-> h.ipx, grid |-> h.grid, sent |-> h.queue, out |-> h.out,
     stdout |-> h.stdout, status |-> "ok"]

\* C19: with expansion disabled a `p` write to a position beyond the width or
\* height is rejected: the width, the height and every cell of the grid are
\* unchanged and execution continues, under InstructionPointer::command and
\* under Befunge::command
C19_PutRejectedWhenDisabled ==
    (/\ Executed("p") /\ ~args.expand
     /\ ~is_negative(PutTarget(h.ipx).pos)
     /\ PutTarget(h.ipx).pos \notin Inside(h.grid))
       => /\ status = "ok"
          /\ grid = h.grid
          /\ BefungeCmdPut(TurnBefore, FALSE).status = "ok"
          /\ BefungeCmdPut(TurnBefore, FALSE).grid = h.grid

\* C20: `g`, `p` and `s` complete for all popped coordinates and every IP
\* position: `g` pushes a value also for a coordinate that is negative or
\* beyond the width or height, `p` beyond the grid or at a negative position
\* is a no-op or an expansion
C20_GridAccessNeverFaults ==
    /\ Executed("g")
          => /\ status = "ok"
             /\ Len(ip_list[HIdx].stacks[1].inner) >= 1
    /\ Executed("p")
          => /\ status = "ok"
             /\ BefungeCmdPut(TurnBefore, args.expand).status = "ok"
             /\ \/ grid = h.grid
                \/ PutTarget(h.ipx).pos \in Inside(h.grid)
                \/ Expanded(h.grid, PutTarget(h.ipx).pos, PutTarget(h.ipx).c,
                            grid)
    /\ Executed("s") => status = "ok"


\* the grid right after the load of the program the run started from
Loaded(g) == CHOOSE l \in {GridNew(prog) : prog \in Programs} :
                l.og_chars = g.og_chars

\* C21: after any sequence of ticks and grid mutations, expansions included,
\* reset restores char_at for every position and the width and height to
\* their values right after load, and restart leaves one IP at the start
\* position with delta east, zero storage offset, a single empty base stack,
\* not yet started, and an empty output buffer
C21_ResetRestoresLoad ==
    /\ LET L == Loaded(grid)
       IN  /\ GridReset(grid) = L
           /\ \A q \in Inside(L) \cup NegativePositions :
                 char_at_pos(GridReset(grid), q) = char_at_pos(L, q)
           /\ \A pos \in Inside(grid) \cup Beyond(grid) :
                 GridReset(set_char_pos(grid, pos, Ord["z"])) = L
    /\ h.act = "Restart"
          => /\ grid = Loaded(h.grid)
             /\ grid.width = Len(grid.og_chars[1])
             /\ grid.height = Len(grid.og_chars)
             /\ Len(ip_list) = 1
             /\ ip_list[1].pos = start_pos
             /\ ip_list[1].delta = EAST
             /\ ip_list[1].offset = ORIGIN
             /\ ip_list[1].stacks = <<StackDefault>>
             /\ ip_list[1].first_tick
             /\ ~ip_list[1].dead /\ ~ip_list[1].string_mode
             /\ out = <<>>
             /\ awaiting = <<>>

\* a restart has undone an expansion of the grid and emptied a stack
C21_Witness ==
    /\ h.act = "Restart"
    /\ h.grid.width = 6
    /\ grid.width = 5
    /\ h.grid.chars # grid.chars
    /\ h.ip_list[1].pos # start_pos


\* g has exactly height rows of exactly width cells
Rectangular(g) ==
    /\ Len(g.chars) = g.height
    /\ \A m \in 1..Len(g.chars) : Len(g.chars[m]) = g.width
    /\ g.width >= 1 /\ g.height >= 1

AllChars == {Ord[k] : k \in DOMAIN Ord} \cup {Ord["z"] + 7}

\* a turn of an IP with two stacks, the second holding a saved offset
TwoStackTurn ==
    [EmptyTurn EXCEPT !.ip.stacks =
        <<[StackDefault EXCEPT !.inner = <<1>>],
          [StackDefault EXCEPT !.inner = <<0, 0>>]>>]

\* what instruction c may make of a stack-of-stacks of depth d
DepthAfter(c, d, d2) ==
    IF c = Ord["{"] THEN d2 = d + 1
    ELSE IF c = Ord["}"] THEN d2 = (IF d = 1 THEN 1 ELSE d - 1)
    ELSE IF c = Ord["k"] THEN d2 >= 1
    ELSE d2 = d

\* C23: every IP's stack-of-stacks holds at least one stack; its depth grows
\* only by `{` and shrinks only by `}`, and `}` removes a stack only when
\* more than one is present
C23_AtLeastOneStack ==
    /\ \A k \in DOMAIN ip_list : Len(ip_list[k].stacks) >= 1
    /\ \A c \in AllChars : \A B \in {EmptyTurn, TwoStackTurn} :
          LET T == command(c, B, EnvNow)
          IN  T.status = "ok"
                 => DepthAfter(c, Len(B.ip.stacks), Len(T.ip.stacks))
    /\ (h.act = "StepIP" /\ h.ran = "exec" /\ status = "ok")
          => DepthAfter(h.c, Len(h.ipx.stacks), Len(ip_list[HIdx].stacks))
    /\ (h.act = "StepIP" /\ h.ran = "string")
          => Len(h.ipx.stacks) = Len(ip_list[HIdx].stacks)

\* `}` has closed the block `{` opened: the IP is back to one stack
C23_Witness ==
    /\ Executed("}")
    /\ Len(h.ipx.stacks) = 2
    /\ Len(ip_list[HIdx].stacks) = 1


\* the IP with its delta inverted and nothing else changed
Reflected(before) == [before EXCEPT !.delta = invert(before.delta)]

\* C24: with exactly one stack in the stack-of-stacks both `{` and `}` just
\* reverse the delta: the depth, the cells of the stack and the storage
\* offset are unchanged
C24_BlockOnBaseReflects ==
    ((Executed("{") \/ Executed("}")) /\ Len(h.ipx.stacks) = 1)
       => /\ ip_list[HIdx] = Reflected(h.ipx)
          /\ grid = h.grid

\* the cells 1..n of s / the cells after the first n of s
FirstCells(s, n) == SubSeq(s, 1, n)
LastCells(s, n) == SubSeq(s, Len(s) - n + 1, Len(s))

\* what `{` makes of the stacks of the IP before, its count n on top of the
\* cells rest of the active stack
BeginBlockResult(before, after) ==
    LET s == before.stacks[1].inner
        n == s[Len(s)]
        rest == SubSeq(s, 1, Len(s) - 1)
        saved == <<before.offset[1], before.offset[2]>>
    IN  /\ Len(after.stacks) = Len(before.stacks) + 1
        /\ Tail(Tail(after.stacks)) = Tail(before.stacks)
        /\ IF n > 0
           THEN Len(rest) >= n
                   => /\ after.stacks[1].inner = LastCells(rest, n)
                      /\ after.stacks[2].inner
                            = FirstCells(rest, Len(rest) - n) \o saved
           ELSE /\ after.stacks[1].inner = <<>>
                /\ after.stacks[2].inner = rest \o Copies(0 - n, 0) \o saved

\* the stacks `{` is tried on: the count on top of up to three cells
BlockStacks ==
    {cells \o <<n>> : cells \in {<<>>, <<7>>, <<7, 8>>, <<7, 8, 9>>},
                      n \in (0 - 2)..3}

\* C30: `{` with a popped count n > 0 on a stack holding at least n more
\* values makes a new active stack of exactly the top n values in their
\* bottom-to-top order and removes them from the previous stack, now second;
\* with n < 0 the new active stack is empty and |n| zeros are pushed on the
\* second stack; with n = 0 no value moves
C30_BeginBlockTransfers ==
    /\ \A s \in BlockStacks :
          LET B == [EmptyTurn EXCEPT !.ip.stacks[1].inner = s]
              T == command(Ord["{"], B, EnvNow)
          IN  T.status = "ok" /\ BeginBlockResult(B.ip, T.ip)
    /\ (Executed("{") /\ h.ipx.stacks[1].inner # <<>>)
          => BeginBlockResult(h.ipx, ip_list[HIdx])

\* `{` has moved the top cell of two into the new active stack
C30_Witness ==
    /\ Executed("{")
    /\ h.ipx.stacks[1].inner = <<1, 2, 1>>
    /\ ip_list[HIdx].stacks[1].inner = <<2>>
    /\ ip_list[HIdx].stacks[2].inner = <<1, 0, 0>>


\* C25: an unknown or reserved opcode reverses the delta and changes nothing
\* else when the ignore configuration is not set; when it is set the opcode
\* is skipped and the delta is unchanged as well
C25_UnknownOpcode ==
    (h.act = "StepIP" /\ h.ran = "exec" /\ h.c \in {Ord["h"], Ord["z"] + 7})
       => /\ ip_list[HIdx] = (IF args.ignore THEN h.ipx ELSE Reflected(h.ipx))
          /\ BefungeCmdDefault(TurnBefore, args.ignore).ip = ip_list[HIdx]
          /\ grid = h.grid /\ out = h.out /\ stdout = h.stdout
          /\ queue = h.queue /\ status = "ok"


\* C26: in headless mode with a maximum tick count m the loop stops once m
\* ticks have run: the engine is stepped at most m times; and the loop body
\* is entered only while the program has not ended and no interrupt has been
\* observed
C26_StopsAtMaxTicks ==
    /\ hl.max.set => hl.steps <= hl.max.code
    /\ (hl.at = "body" /\ ~hl.interrupted) => hl.state # "ended"

\* what the loop does guarantee: at most m + 2 passes through its body
HeadlessStepBound ==
    hl.max.set => hl.steps <= hl.max.code + 2 /\ hl.ticks <= hl.max.code + 1

\* with --max 0 the engine has been stepped twice
HeadlessTwoSteps == hl.max = [set |-> TRUE, code |-> 0] /\ hl.steps = 2


\* C27: after any sequence of speed_up and slow_down calls from the initial
\* 128 ms the period is within [16 ms, 1024 ms]; speed_up halves it, but not
\* below 16 ms, slow_down doubles it, but not above 1024 ms, and both leave
\* it unchanged at their limit
C27_PeriodWithinRange ==
    /\ clock.tickrate >= 16 /\ clock.tickrate <= 1024
    /\ clock.act = "speed_up"
          => IF clock.prev = 16 THEN clock.tickrate = 16
             ELSE clock.tickrate * 2 = clock.prev
    /\ clock.act = "slow_down"
          => IF clock.prev = 1024 THEN clock.tickrate = 1024
             ELSE clock.tickrate = clock.prev * 2
    /\ clock.act \in {"time", "send", "has_tick"}
          => clock.tickrate = clock.prev

\* speed_up has been called at the shortest period and has left it at 16 ms
C27_Witness ==
    /\ clock.act = "speed_up"
    /\ clock.prev = 16
    /\ clock.tickrate = 16


\* the characters between the quotes of the programs, and the quote
StringChars == {Ord["quote"], Ord["@"], Ord["a"], Ord["q"], Ord["1"]}

\* C28: after `"` is executed every following tick pushes the character code
\* of the cell the IP reaches instead of executing it, until the IP reaches
\* the next `"`, which pushes nothing and returns the IP to normal execution;
\* no cell between the quotes is executed, and the opening quote does not end
\* string mode
C28_StringModePushes ==
    /\ Executed("quote")
          => ip_list[HIdx] = [h.ipx EXCEPT !.string_mode = TRUE]
    /\ (h.act = "StepIP" /\ h.ran # "skip")
          => (h.ran = "string") = h.ipx.string_mode
    /\ (h.act = "StepIP" /\ h.ran = "string")
          => /\ grid = h.grid /\ out = h.out /\ stdout = h.stdout
             /\ queue = h.queue /\ status = "ok"
             /\ IF h.c = Ord["quote"]
                THEN ip_list[HIdx] = [h.ipx EXCEPT !.string_mode = FALSE]
                ELSE /\ ip_list[HIdx].string_mode
                     /\ ~ip_list[HIdx].dead
                     /\ ip_list[HIdx].delta = h.ipx.delta
                     /\ ip_list[HIdx].stacks[1].inner
                           = Append(h.ipx.stacks[1].inner, h.c)
                     /\ (h.c # Ord[" "] => ip_list[HIdx] = push(h.ipx, h.c))
    /\ NextState(STRING_MODE, Ord["quote"]).action = "StringPush"
    /\ \A c \in StringChars : \A t \in 1..2 :
          LET st == [STRING_MODE EXCEPT !.ticks = t]
          IN  /\ is_over(st, c) = (c = Ord["quote"])
              /\ NextState(st, c).action
                    = (IF c = Ord["quote"] THEN "Instruction" ELSE "StringPush")

\* in string mode the IP has reached `@` and has pushed 64 instead of halting
C28_Witness ==
    /\ h.act = "StepIP" /\ h.ran = "string"
    /\ h.c = Ord["@"]
    /\ ip_list[HIdx].stacks[1].inner = <<Ord["@"]>>
    /\ ~ip_list[HIdx].dead
    /\ ip_list[HIdx].string_mode


\* C29: on the first tick after load or reset the IP executes the
\* instruction at the start position without walking first; on every later
\* tick in the running state it walks exactly one wrapped step and then
\* executes the instruction at the new position
C29_FirstTickDoesNotWalk ==
    /\ h.act \in {"Init", "Restart"}
          => /\ ip_list[1].first_tick
             /\ ip_list[1].pos = start_pos
    /\ (h.act = "StepIP" /\ h.ran # "skip")
          => LET before == h.ip_list[HIdx]
             IN  /\ ~ip_list[HIdx].first_tick
                 /\ h.c = char_at_pos(h.grid, h.ipx.pos)
                 /\ IF before.first_tick
                    THEN /\ h.ipx = [before EXCEPT !.first_tick = FALSE]
                         /\ h.ipx.pos = start_pos
                    ELSE /\ h.ipx.pos[1]
                               = (before.pos[1] + before.delta[1])
                                    % h.grid.width
                         /\ h.ipx.pos[2]
                               = (before.pos[2] + before.delta[2])
                                    % h.grid.height
                         /\ [h.ipx EXCEPT !.pos = before.pos] = before
    /\ STARTED.move_type = "Halted" /\ STARTED.action = "Instruction"
    /\ \A c \in StringChars \cup {Ord["z"]} :
          /\ NextState(STARTED, c) = RUNNING
          /\ NextState(RUNNING, c).move_type = "Forward"
          /\ NextState(RUNNING, c).action = "Instruction"

\* the first tick has executed the instruction on the start cell
C29_Witness ==
    /\ h.act = "StepIP" /\ h.ran = "exec"
    /\ h.ip_list[HIdx].first_tick
    /\ h.ipx.pos = start_pos
    /\ h.c = char_at_pos(h.grid, start_pos)
    /\ h.c = Ord["2"]
    /\ ip_list[HIdx].stacks[1].inner = <<2>>


\* C31: `{` saves the storage offset of the IP on the second stack, x pushed
\* first and y second, after the transfer of the values, and sets the new
\* storage offset to the cell ahead of the IP: the wrapped position inside
\* the grid one delta step from the position of the IP, also on the edge of
\* the grid facing outward
C31_BlockOffsetIsCellAhead ==
    Executed("{")
       => LET before == h.ipx
              after == ip_list[HIdx]
              second == after.stacks[2].inner
          IN  /\ Len(second) >= 2
              /\ LastCells(second, 2) = <<before.offset[1], before.offset[2]>>
              /\ after.offset = cell_ahead_ip(h.grid, before)
              /\ after.offset \in Inside(h.grid)


\* the turns `{` is tried on for the round trip: up to three cells and a
\* count n of at most that many on the active stack, with or without a stack
\* below it, and a storage offset
RoundTripTurns ==
    {[EmptyTurn EXCEPT !.ip.stacks = <<[StackDefault EXCEPT !.inner = cells \o <<n>>]>> \o below,
                       !.ip.offset = off] :
        cells \in {<<>>, <<7>>, <<7, 8>>, <<7, 8, 9>>},
        n \in 0..3,
        below \in {<<>>, <<[StackDefault EXCEPT !.inner = <<5>>]>>},
        off \in {<<2, 1>>}}

\* `{` with the count on top of the active stack of B and then `}` with the
\* same count give back the IP of B less the count
RoundTrip(B) ==
    LET s == B.ip.stacks[1].inner
        n == s[Len(s)]
        opened == command(Ord["{"], B, EnvNow)
        closed == command(Ord["}"],
                          [opened EXCEPT !.ip = push(opened.ip, n)], EnvNow)
    IN  (n >= 0 /\ Len(s) - 1 >= n)
           => /\ opened.status = "ok" /\ closed.status = "ok"
              /\ Len(opened.ip.stacks) = Len(B.ip.stacks) + 1
              /\ closed.ip = pop(B.ip).ip
              /\ closed.ip.offset = B.ip.offset
              /\ closed.ip.stacks[1].inner = SubSeq(s, 1, Len(s) - 1)
              /\ Tail(closed.ip.stacks) = Tail(B.ip.stacks)

\* C32: `}` is the inverse of `{`: for an IP whose active stack holds at
\* least n >= 0 values below the count, `{` with count n and then `}` with
\* the same count n restore the stack-of-stacks, the depth and the cells of
\* every stack in their order less the counts, and the storage offset
C32_EndBlockInvertsBeginBlock ==
    /\ \A B \in RoundTripTurns : RoundTrip(B)
    /\ (Executed("{") /\ h.ipx.stacks[1].inner # <<>>)
          => RoundTrip([EmptyTurn EXCEPT !.ip = h.ipx, !.grid = h.grid])

\* `}` with count 1 has closed the block `{` opened with count 1 on the
\* stack 7: the IP has the one stack 7 and the storage offset (0,0) again
C32_Witness ==
    /\ Executed("}")
    /\ Len(h.ipx.stacks) = 2
    /\ h.ipx.stacks[1].inner = <<7, 1>>
    /\ h.ipx.stacks[2].inner = <<0, 0>>
    /\ h.ipx.offset = <<3, 0>>
    /\ Len(ip_list[HIdx].stacks) = 1
    /\ ip_list[HIdx].stacks[1].inner = <<7>>
    /\ ip_list[HIdx].offset = <<0, 0>>


\* the cells of s from the last to the first
Reversed(s) == [i \in 1..Len(s) |-> s[Len(s) + 1 - i]]

\* what `u` makes of the IP before: with two or more stacks its count n is
\* on top of the cells of the active stack
UnderResult(before, after) ==
    IF Len(before.stacks) = 1 THEN after = Reflected(before)
    ELSE LET s == before.stacks[1].inner
             n == IF s = <<>> THEN 0 ELSE s[Len(s)]
             cells == IF s = <<>> THEN s ELSE SubSeq(s, 1, Len(s) - 1)
             second == before.stacks[2].inner
             m == 0 - n
         IN  /\ [after EXCEPT !.stacks = before.stacks] = before
             /\ Len(after.stacks) = Len(before.stacks)
             /\ Tail(Tail(after.stacks)) = Tail(Tail(before.stacks))
             /\ (n > 0 /\ n <= Len(second))
                   => /\ after.stacks[1].inner
                            = cells \o Reversed(LastCells(second, n))
                      /\ after.stacks[2].inner
                            = FirstCells(second, Len(second) - n)
             /\ (n < 0 /\ m <= Len(cells))
                   => /\ after.stacks[2].inner
                            = second \o Reversed(LastCells(cells, m))
                      /\ after.stacks[1].inner
                            = FirstCells(cells, Len(cells) - m)
             /\ n = 0
                   => /\ after.stacks[1].inner = cells
                      /\ after.stacks[2].inner = second

\* the turns `u` is tried on: one stack, or a count on two cells above a
\* second stack of two cells, with or without a third stack
UnderTurns ==
    {[EmptyTurn EXCEPT !.ip.stacks = <<[StackDefault EXCEPT !.inner = <<7, 8, n>>]>>] :
        n \in (0 - 2)..2}
    \cup
    {[EmptyTurn EXCEPT !.ip.stacks =
         <<[StackDefault EXCEPT !.inner = <<7, 8, n>>],
           [StackDefault EXCEPT !.inner = <<5, 6>>]>> \o below] :
        n \in (0 - 2)..2,
        below \in {<<>>, <<[StackDefault EXCEPT !.inner = <<4>>]>>}}

\* C33: `u` never changes the depth of the stack-of-stacks.  With exactly
\* one stack it reverses the delta and leaves the stack as it is, the count
\* not popped.  With two or more stacks it pops a count n and moves n values
\* one at a time from the second stack to the active stack when n > 0, |n|
\* values one at a time from the active stack to the second stack when
\* n < 0, and nothing when n = 0
C33_StackUnderStack ==
    /\ \A B \in UnderTurns :
          LET T == command(Ord["u"], B, EnvNow)
          IN  /\ T.status = "ok"
              /\ [T EXCEPT !.ip = B.ip] = B
              /\ Len(T.ip.stacks) = Len(B.ip.stacks)
              /\ UnderResult(B.ip, T.ip)
    /\ Executed("u")
          => /\ Len(ip_list[HIdx].stacks) = Len(h.ipx.stacks)
             /\ UnderResult(h.ipx, ip_list[HIdx])
             /\ grid = h.grid /\ out = h.out /\ queue = h.queue

\* `u` with count 1 has moved the top cell of the second stack, the saved
\* offset y, to the active stack
C33_Witness ==
    /\ Executed("u")
    /\ h.ipx.stacks[1].inner = <<1>>
    /\ h.ipx.stacks[2].inner = <<7, 0, 0>>
    /\ ip_list[HIdx].stacks[1].inner = <<0>>
    /\ ip_list[HIdx].stacks[2].inner = <<7, 0>>
    /\ Len(ip_list[HIdx].stacks) = 2


\* the cell d steps ahead of pos along delta, wrapped
CellAhead(g, pos, delta, d) ==
    <<(pos[1] + d * delta[1]) % g.width, (pos[2] + d * delta[2]) % g.height>>

\* the semicolons among the first d cells ahead
SemicolonsAhead(g, pos, delta, d) ==
    Cardinality({e \in 1..d :
                    char_at_pos(g, CellAhead(g, pos, delta, e)) = Ord[";"]})

\* the distances at which a cell ahead is an instruction `k` may repeat:
\* not blank, not `;` and not between a pair of `;`
RunnableDistances(g, pos, delta) ==
    {d \in 1..(g.width * g.height) :
        LET c == char_at_pos(g, CellAhead(g, pos, delta, d))
        IN  /\ c # Ord[" "] /\ c # Ord[";"]
            /\ SemicolonsAhead(g, pos, delta, d) % 2 = 0}

\* instruction c executed n times, each time on what the time before left
Repeated(c, T, n) ==
    IF n = 1 THEN command(c, T, EnvNow)
    ELSE IF n = 2 THEN command(c, command(c, T, EnvNow), EnvNow)
    ELSE command(c, command(c, command(c, T, EnvNow), EnvNow), EnvNow)

\* what `k` makes of the turn B, its count on top of the active stack
IterateResult(B, T) ==
    LET r == pop(B.ip)
        n == r.val
        P == [B EXCEPT !.ip = r.ip]
        ds == RunnableDistances(B.grid, B.ip.pos, B.ip.delta)
        d == CHOOSE e \in ds : \A f \in ds : e <= f
        c == char_at_pos(B.grid, CellAhead(B.grid, B.ip.pos, B.ip.delta, d))
    IN  /\ n = 0
           => /\ [T EXCEPT !.ip.pos = B.ip.pos] = P
              /\ T.ip.pos = CellAhead(B.grid, B.ip.pos, B.ip.delta, 1)
        /\ (n \in 1..3 /\ ds # {}) => T = Repeated(c, P, n)

\* a line with a blank and a pair of semicolons between `k` and the
\* instruction ahead, and a line where the instruction ahead is `+`
IterateGrids ==
    {GridNew(<<Text(<<"k", " ", ";", "z", ";", "1", "@">>)>>),
     GridNew(<<Text(<<"k", "+", "@">>)>>)}

\* C34: `k` pops a count n: when n = 0 the IP advances one cell, so that
\* the next cell is not executed, and nothing else changes; when n > 0 the
\* next instruction ahead that is neither blank nor `;` is executed exactly
\* n times, each execution starting from the state the one before left, and
\* `k` itself does not move the IP before those executions
C34_IterateRepeats ==
    /\ \A g \in IterateGrids : \A n \in 0..3 :
          LET B == [EmptyTurn EXCEPT !.grid = g,
                                     !.ip.stacks[1].inner = <<1, 2, 3, n>>]
              T == command(Ord["k"], B, EnvNow)
          IN  /\ T.status = "ok"
              /\ IterateResult(B, T)
              /\ T.grid = g /\ T.out = <<>> /\ T.sent = <<>>
              /\ n > 0 => T.ip.pos = B.ip.pos
              /\ (n = 2 /\ g.width = 3) => T.ip.stacks[1].inner = <<6>>
              /\ (n = 3 /\ g.width = 7)
                    => T.ip.stacks[1].inner = <<1, 2, 3, 1, 1, 1>>
    /\ Executed("k")
          => IterateResult([EmptyTurn EXCEPT !.ip = h.ipx, !.grid = h.grid,
                                             !.sent = h.queue, !.out = h.out,
                                             !.stdout = h.stdout],
                           [ip |-> ip_list[HIdx], grid |-> grid,
                            sent |-> queue, out |-> out, stdout |-> stdout,
                            status |-> status])

\* `k` with count 2 has run the `&` ahead twice without moving: two input
\* requests are posted
C34_Witness ==
    /\ Executed("k")
    /\ h.ipx.stacks[1].inner = <<2>>
    /\ ip_list[HIdx].pos = h.ipx.pos
    /\ Len(queue) = Len(h.queue) + 2
    /\ queue[Len(queue)].type = "Input"
    /\ queue[Len(queue) - 1].type = "Input"


\* the facts of `y` that are vectors
VectorFacts == 10..14

\* C35: `y` with a popped selector n in 1..20 pushes exactly fact n and
\* nothing else, one cell for a scalar fact and two cells, x then y, for a
\* vector fact; n = 7 pushes 2, n = 8 the id of the executing IP, n = 17 the
\* depth of the stack-of-stacks, and n = 18 one cell holding the depth of
\* the active stack however many stacks there are
C35_SysInfoPushesOneFact ==
    (Executed("y") /\ status = "ok")
       => LET r == pop(h.ipx)
              n == r.val
              before == r.ip.stacks[1].inner
              after == ip_list[HIdx].stacks[1].inner
          IN  (n \in 1..20 /\ n \notin OutsideFacts)
                 => /\ [ip_list[HIdx] EXCEPT !.stacks[1].inner = before] = r.ip
                    /\ Len(after)
                          = Len(before) + (IF n \in VectorFacts THEN 2 ELSE 1)
                    /\ FirstCells(after, Len(before)) = before
                    /\ n = 7 => after = Append(before, 2)
                    /\ n = 8 => after = Append(before, h.ipx.id)
                    /\ n = 17 => after = Append(before, Len(h.ipx.stacks))
                    /\ n = 18 => after = Append(before, Len(before))


\* the distances ahead of pos along delta at which the cell is not blank
NonBlankDistances(g, pos, delta) ==
    {d \in 1..(g.width * g.height) :
        char_at_pos(g, CellAhead(g, pos, delta, d)) # Ord[" "]}

\* C36: the skip over blank cells always ends: for every grid, position and
\* delta the space instruction returns after finitely many steps of walk,
\* changes no stack, grid cell or output and leaves the IP exactly one step
\* before the first cell on its path that is not blank, also when every cell
\* on the path is blank
C36_BlankSkipTerminates ==
    Executed(" ")
       => /\ status = "ok"
          /\ grid = h.grid /\ out = h.out /\ stdout = h.stdout
          /\ queue = h.queue
          /\ [ip_list[HIdx] EXCEPT !.pos = h.ipx.pos] = h.ipx
          /\ LET ds == NonBlankDistances(h.grid, h.ipx.pos, h.ipx.delta)
                 d == CHOOSE e \in ds : \A f \in ds : e <= f
             IN  /\ ds # {}
                 /\ ip_list[HIdx].pos
                       = CellAhead(h.grid, h.ipx.pos, h.ipx.delta, d - 1)


\* the Spawn events posted in the tick under way
SpawnsPosted == {k \in DOMAIN tk.posted : tk.posted[k].type = "Spawn"}

\* C37: when two or more IPs execute `t` in the same tick, the drain of the
\* Spawn events makes exactly one new IP for each event, and each new IP is
\* a clone of, and is placed immediately before, the IP that executed that
\* `t`, although earlier insertions of the same drain have shifted the list
\* positions and renumbered the ids
C37_SpawnBeforeExecutor ==
    (SpawnApplied /\ Cardinality(SpawnsPosted) >= 2)
       => /\ Len(ip_list) = Len(h.ip_list) + 1
          /\ \E j \in 1..(Len(ip_list) - 1) :
                /\ uid[j] \notin Range(h.uid)
                /\ uid[j + 1] = h.from
                /\ [ip_list[j] EXCEPT !.id = 0, !.delta = ORIGIN]
                      = [ip_list[j + 1] EXCEPT !.id = 0, !.delta = ORIGIN]
                /\ \E p \in DOMAIN h.ip_list :
                      /\ h.uid[p] = h.from
                      /\ [ip_list[j + 1] EXCEPT !.id = 0]
                            = [h.ip_list[p] EXCEPT !.id = 0]

\* C38: an input value is always delivered to the IP that executed the `&`
\* or `~` that asked for it: when a Spawn event and an Input event are
\* posted in the same tick, the id the Input event carries still designates
\* the requesting IP at the moment the event is applied
C38_InputReachesRequester ==
    /\ (h.act = "DrainEvent" /\ h.ev.type = "Input")
          => /\ h.ev.arg + 1 \in DOMAIN h.uid
             /\ h.uid[h.ev.arg + 1] = h.from
    /\ InputGiven
          => /\ h.idx + 1 \in DOMAIN h.uid
             /\ h.uid[h.idx + 1] = h.from
             /\ \A k \in DOMAIN ip_list :
                   ip_list[k] = IF uid[k] = h.from THEN push(h.ip_list[k], h.val)
                                ELSE h.ip_list[k]


\* C39: for an IP with any storage offset, a non-zero one set by `{`
\* included, `p` writing character c at the popped coordinates (x, y)
\* followed by `g` with the same popped coordinates (x, y) pushes the code
\* of c, provided the addressed cell is inside the grid
C39_PutThenGet ==
    (Executed("p") /\ status = "ok")
       => LET v == pop_vector(h.ipx)
              c == pop_char(v.ip)
              G == command(Ord["g"],
                           [EmptyTurn EXCEPT
                               !.ip = push_vector(ip_list[HIdx], v.val),
                               !.grid = grid],
                           EnvNow)
          IN  (/\ v.val \in Inside(h.grid)
               /\ VecAdd(v.val, h.ipx.offset) \in Inside(h.grid))
                 => /\ G.status = "ok"
                    /\ G.ip = push(ip_list[HIdx], c.val)


\* the number a run of decimal digits stands for
RECURSIVE DigitsValue(_)
DigitsValue(cells) ==
    IF cells = <<>> THEN 0
    ELSE DigitsValue(SubSeq(cells, 1, Len(cells) - 1)) * 10
            + (cells[Len(cells)] - Ord["0"])

\* cells is the decimal numeral of m >= 0, without leading zeros
IsNumeralOf(cells, m) ==
    /\ cells # <<>>
    /\ \A k \in DOMAIN cells : IsDecimal(cells[k])
    /\ Len(cells) > 1 => cells[1] # Ord["0"]
    /\ DigitsValue(cells) = m

\* cells is the decimal form of n followed by one space
IsDecimalAndSpace(cells, n) ==
    /\ Len(cells) >= 2
    /\ cells[Len(cells)] = Ord[" "]
    /\ LET num == SubSeq(cells, 1, Len(cells) - 1)
       IN  IF n < 0
           THEN num[1] = Ord["-"] /\ IsNumeralOf(Tail(num), 0 - n)
           ELSE IsNumeralOf(num, n)

\* the top cell of the active stack of an IP, 0 when it is empty
TopCell(ip) ==
    LET s == ip.stacks[1].inner IN IF s = <<>> THEN 0 ELSE s[Len(s)]

\* C40: between resets the output buffer of the interactive mode is only
\* appended to: after every instruction the content before is a prefix of
\* the content after, only `,` (one character) and `.` (the decimal integer
\* and one space) extend it, and in quiet mode the buffer is never modified
C40_OutputAppendOnly ==
    /\ args.quiet => out = <<>>
    /\ h.act \notin {"Init", "Restart"}
          => /\ Len(h.out) <= Len(out)
             /\ FirstCells(out, Len(h.out)) = h.out
             /\ out # h.out
                   => \/ Executed(",") \/ Executed(".")
                      \/ /\ Executed("k")
                         /\ runnable_char_ahead(h.grid, h.ipx.pos, h.ipx.delta)
                               \in {Ord[","], Ord["."]}
    /\ (Executed(",") /\ ~args.quiet /\ TopCell(h.ipx) \in 0..127)
          => out = Append(h.out, TopCell(h.ipx))
    /\ (Executed(".") /\ ~args.quiet)
          => IsDecimalAndSpace(SubSeq(out, Len(h.out) + 1, Len(out)),
                               TopCell(h.ipx))
    /\ ((Executed(",") \/ Executed(".")) /\ args.quiet)
          => /\ out = h.out
             /\ stdout # h.stdout

\* `,` has added one character to the buffer that held "5 "
C40_Witness ==
    /\ Executed(",")
    /\ ~args.quiet
    /\ h.out = Text(<<"5", " ">>)
    /\ out = Append(h.out, 6)


====
